---- MODULE Spec2Model ----
(***************************************************************************)
(* Minimizer positions of a DNA sequence: the scalar pipeline, the 8-lane  *)
(* SIMD pipeline, the collectors that linearise the lanes (with and        *)
(* without dedup) and the in-place dedup of a vector.                      *)
(*                                                                         *)
(* A u32 whose value may exceed 2^31 (a hash, a value handed to the dedup  *)
(* collectors) is held as the pair <<hi, lo>> of its two 16-bit halves.    *)
(* Positions are plain naturals: within the bounds they stay far below     *)
(* 2^16, so neither the 16-bit position half of the sliding minimum nor    *)
(* the u32 position itself wraps.                                          *)
(***************************************************************************)
EXTENDS Integers, Sequences, FiniteSets, TLC

VARIABLES
    pc,          \* position of the driver of the specification at hand
    seq,         \* the input sequence of bases (2-bit values)
    k, w,        \* k-mer length and window count
    mode,        \* "fwd": forward minimizers, "rc": canonical minimizers
    scalar_out,  \* result of the scalar entry point
    rev_out,     \* result of the scalar entry point on revcomp(seq)
    head, tail,  \* result of the SIMD entry point: 8-lane head, scalar tail
    simd_out,    \* collect((head, tail))
    SUPER,       \* the const parameter of collect_and_dedup
    CACHE,       \* the thread-local per-lane buffers of collect_and_dedup_into
    out_vec,     \* result of collect_and_dedup
    input,       \* the vector handed to dedup_vec, as it was given
    v,           \* the vector dedup_vec works on, in place
    write_idx, read_idx, prev, oldv,  \* locals of dedup_vec
    accessed,    \* one past the highest index of v that dedup_vec has read or written
    call,        \* an entry point called with given parameters, and how the call ended
    holders,     \* the number of live mutable borrows of CACHE
    locals,      \* locals of the collect_and_dedup_into call in progress
    app,         \* arguments and results of append_unique_vals
    anchor       \* a sampling scheme, a window and the sampled index

minvars == <<seq, k, w, mode, scalar_out, rev_out>>
colvars == <<SUPER, CACHE, out_vec>>
vecvars == <<input, v, write_idx, read_idx, prev, oldv, accessed>>
auxvars == <<call, holders, locals, app, anchor>>

vars == <<pc, minvars, head, tail, simd_out, colvars, vecvars, auxvars>>

(* The value of a variable that the specification at hand does not use.    *)
Unused == <<>>

---------------------------------------------------------------------------
(* Bounds of the model. *)
MaxK == 3
MaxW == 3
MaxHead == 17
MaxTail == 2
MaxVecLen == 33
MaxAntiLen == 50
MaxLen == 13
LongLen == 19
LongK == 7

(* Number of 32-bit lanes of a SIMD vector. *)
L == 8

Half == 2 ^ 16
Bases == 0 .. 3
Lanes == 1 .. L

---------------------------------------------------------------------------
(* u32 arithmetic on <<hi, lo>> pairs. *)

RECURSIVE BitXor(_, _, _)
BitXor(a, b, n) ==
    IF n = 0 THEN 0
    ELSE ((a + b) % 2) + 2 * BitXor(a \div 2, b \div 2, n - 1)

XorByte == [a \in 0 .. 255 |-> [b \in 0 .. 255 |-> BitXor(a, b, 8)]]

Xor16(a, b) ==
    XorByte[a \div 256][b \div 256] * 256 + XorByte[a % 256][b % 256]

Xor32(x, y) == <<Xor16(x[1], y[1]), Xor16(x[2], y[2])>>

RotL1(x) ==
    <<((x[1] * 2) % Half) + (x[2] \div (Half \div 2)),
      ((x[2] * 2) % Half) + (x[1] \div (Half \div 2))>>

RotR1(x) ==
    <<(x[1] \div 2) + ((x[2] % 2) * (Half \div 2)),
      (x[2] \div 2) + ((x[1] % 2) * (Half \div 2))>>

RECURSIVE RotN(_, _, _)
RotN(x, r, left) ==
    IF r = 0 THEN x
    ELSE RotN(IF left THEN RotL1(x) ELSE RotR1(x), r - 1, left)

(* 32-bit rotations; the amount is taken modulo 32. *)
RotL(x, r) == RotN(x, r % 32, TRUE)
RotR(x, r) == RotN(x, r % 32, FALSE)

Less32(x, y) == x[1] < y[1] \/ (x[1] = y[1] /\ x[2] < y[2])
Min32(x, y) == IF Less32(y, x) THEN y ELSE x

ZeroU32 == <<0, 0>>
MaxU32 == <<Half - 1, Half - 1>>

---------------------------------------------------------------------------
(* Sequences of bases. *)

Complement(b) == 3 - b

RevComp(s) == [i \in 1 .. Len(s) |-> Complement(s[Len(s) + 1 - i])]

Slice(s, from, len) == [i \in 1 .. len |-> s[from + i]]

(* The inputs: prefixes of periodic sequences.  Every period of length 1  *)
(* and 2 (up to a shift), and three long aperiodic patterns, of which     *)
(* one longer prefix is taken too (two windows per lane).                 *)
LongPatterns ==
    { <<2, 1, 2, 2, 0, 2, 1, 1, 3, 0, 3, 3, 1, 0, 0, 1, 2, 0, 3, 0, 2, 3, 1>>,
      <<1, 0, 0, 3, 3, 3, 0, 1, 1, 2, 0, 3, 0, 3, 2, 2, 1, 0, 1, 3, 3, 0, 2>>,
      <<2, 2, 1, 1, 1, 2, 1, 2, 2, 2, 1, 1, 2, 1, 1, 1, 2, 2, 1, 2, 1, 2, 2>> }

Patterns ==
    { <<a>> : a \in Bases } \cup { p \in Bases \X Bases : p[1] < p[2] }
        \cup LongPatterns

SeqOf(p, n) == [i \in 1 .. n |-> p[((i - 1) % Len(p)) + 1]]

LongInputs ==
    { SeqOf(p, n) : p \in LongPatterns, n \in 0 .. MaxLen }
        \cup { SeqOf(p, LongLen) : p \in LongPatterns }

Inputs == { SeqOf(p, n) : p \in Patterns, n \in 0 .. MaxLen } \cup LongInputs

---------------------------------------------------------------------------
(* Rolling hashers (ntHash).                                               *)

(* The 4-entry base table: the low words of the published ntHash seeds,    *)
(* 0x95c60474, 0x62a02b4c, 0x82572324, 0x4be24456.                         *)
HashTable ==
    << <<38342, 1140>>, <<25248, 11084>>, <<33367, 8996>>, <<19426, 17494>> >>

HASHES_F(b) == HashTable[b + 1]

(* The symmetric combination of the forward and the reverse-complement     *)
(* hash of a k-mer: their XOR.                                             *)
Combine(fw, rc) == Xor32(fw, rc)

(* One rolling step: the pair of running hashes after base a is added.     *)
(* fw = XOR_i rot(h(b_i), k-1-i); rc is the same hash of the reverse       *)
(* complement, XOR_i rot(h(comp b_i), i).                                   *)
HashAdd(RC, st, a, kk) ==
    [fw |-> Xor32(RotL1(st.fw), HASHES_F(a)),
     rc |-> IF RC
            THEN Xor32(RotR1(st.rc), RotL(HASHES_F(Complement(a)), kk - 1))
            ELSE ZeroU32]

(* ... and after the base r that leaves the k-mer is removed.              *)
HashRemove(RC, st, r, kk) ==
    [fw |-> Xor32(st.fw, RotL(HASHES_F(r), kk - 1)),
     rc |-> IF RC THEN Xor32(st.rc, HASHES_F(Complement(r))) ELSE ZeroU32]

HashValue(RC, st) == IF RC THEN Combine(st.fw, st.rc) ELSE st.fw

HashZero == [fw |-> ZeroU32, rc |-> ZeroU32]

RECURSIVE HashPrime(_, _, _, _, _, _)
HashPrime(RC, s, kk, i, n, st) ==
    IF i > n THEN st
    ELSE HashPrime(RC, s, kk, i + 1, n, HashAdd(RC, st, s[i], kk))

RECURSIVE HashRun(_, _, _, _, _)
HashRun(RC, s, kk, i, st) ==
    IF i > Len(s) THEN <<>>
    ELSE LET out == HashAdd(RC, st, s[i], kk)
         IN  <<HashValue(RC, out)>>
                 \o HashRun(RC, s, kk, i + 1, HashRemove(RC, out, s[i - kk + 1], kk))

(* The scalar streaming hasher: the hashes of all k-mers of s, in order.   *)
(* The first k-1 bases prime the state, every further base yields a hash.  *)
hash_seq_scalar(RC, s, kk) ==
    IF Len(s) < kk THEN <<>>
    ELSE HashRun(RC, s, kk, kk, HashPrime(RC, s, kk, 1, kk - 1, HashZero))

(* The SIMD mapper, one lane of it.  Its input is the stream of pairs      *)
(* (added base, base removed with delay k-1), the removed base being 0     *)
(* during the first k-1 steps; the state starts as if k-1 bases 0 had      *)
(* been added, which those first removals cancel.  It yields one hash per  *)
(* step; the first k-1 are not hashes of k-mers of the lane.               *)
HashMapperInit(RC, kk) ==
    HashPrime(RC, [i \in 1 .. kk - 1 |-> 0], kk, 1, kk - 1, HashZero)

RECURSIVE HashMapperRun(_, _, _, _, _)
HashMapperRun(RC, ar, kk, i, st) ==
    IF i > Len(ar) THEN <<>>
    ELSE LET out == HashAdd(RC, st, ar[i][1], kk)
         IN  <<HashValue(RC, out)>>
                 \o HashMapperRun(RC, ar, kk, i + 1, HashRemove(RC, out, ar[i][2], kk))

hash_mapper(RC, ar, kk) == HashMapperRun(RC, ar, kk, 1, HashMapperInit(RC, kk))

---------------------------------------------------------------------------
(* Sliding-window minimum over the last w hashes.                          *)
(* Only the upper 16 bits of a hash are compared: every element is packed  *)
(* as (upper half of the hash, 16-bit position half) and the minimum of    *)
(* the packed values is taken.  LEFT: the position half is the position,   *)
(* so that the earliest of equal hashes wins; otherwise it is the          *)
(* inverted position, so that the latest wins.  The stream is cut into     *)
(* blocks of w elements: prefix is the minimum of the current block so     *)
(* far, ring holds the suffix minima of the previous block.                *)

PackElem(LEFT, val, pos) ==
    <<val[1], IF LEFT THEN pos % Half ELSE (Half - 1) - (pos % Half)>>

ElemPos(LEFT, e) == IF LEFT THEN e[2] ELSE (Half - 1) - e[2]

RECURSIVE SuffixMin(_, _)
SuffixMin(ring, i) ==
    IF i = Len(ring) THEN ring[i] ELSE Min32(ring[i], SuffixMin(ring, i + 1))

SlidingInit(ww) ==
    [prefix |-> MaxU32, ring |-> [i \in 1 .. ww |-> MaxU32], idx |-> 0, pos |-> 0]

SlidingStep(LEFT, st, val, ww) ==
    LET elem   == PackElem(LEFT, val, st.pos)
        ring1  == [st.ring EXCEPT ![st.idx + 1] = elem]
        idx1   == (st.idx + 1) % ww
        filled == idx1 = 0
    IN  [prefix |-> IF filled THEN MaxU32 ELSE Min32(st.prefix, elem),
         ring   |-> IF filled THEN [i \in 1 .. ww |-> SuffixMin(ring1, i)] ELSE ring1,
         idx    |-> idx1,
         pos    |-> st.pos + 1]

SlidingOut(LEFT, st) == ElemPos(LEFT, Min32(st.prefix, st.ring[st.idx + 1]))

RECURSIVE SlidingRun(_, _, _, _, _, _)
SlidingRun(LEFT, vals, ww, i, st, offset) ==
    IF i > Len(vals) THEN <<>>
    ELSE LET st1 == SlidingStep(LEFT, st, vals[i], ww)
         IN  <<SlidingOut(LEFT, st1) + offset>>
                 \o SlidingRun(LEFT, vals, ww, i + 1, st1, offset)

(* it.by_ref().take(n).for_each(drop): the stream without its first n.     *)
DropFirst(s, n) ==
    IF Len(s) <= n THEN <<>> ELSE [i \in 1 .. Len(s) - n |-> s[n + i]]

(* Scalar: one absolute position per window of w hashes.                   *)
sliding_min_scalar(LEFT, vals, ww) ==
    DropFirst(SlidingRun(LEFT, vals, ww, 1, SlidingInit(ww), 0), ww - 1)

(* One lane (0-based) of the SIMD mapper, fed one hash per step of a       *)
(* parallel iterator of len steps, the first k-1 of which are not hashes   *)
(* of k-mers.  Its output is the absolute position: the position in the    *)
(* lane plus lane * (chunk length).                                        *)
SaturatingSub(a, b) == IF a > b THEN a - b ELSE 0

sliding_min_mapper(LEFT, vals, ww, kk, len, lane) ==
    SlidingRun(LEFT, vals, ww, 1, SlidingInit(ww),
               lane * SaturatingSub(len, ww + kk - 2) - (kk - 1))

sliding_lr_min_mapper(vals, ww, kk, len, lane) ==
    LET lmin == sliding_min_mapper(TRUE, vals, ww, kk, len, lane)
        rmin == sliding_min_mapper(FALSE, vals, ww, kk, len, lane)
    IN  [i \in 1 .. Len(vals) |-> <<lmin[i], rmin[i]>>]

---------------------------------------------------------------------------
(* Canonical windows.                                                      *)

(* Scanning from both ends toward the centre, the first position where the *)
(* base and the complement of its mirror differ decides: canonical iff the *)
(* base is the smaller one; a window without such a position is canonical. *)
IsCanonical(win) ==
    LET n    == Len(win)
        diff == { j \in 1 .. n : win[j] # Complement(win[n + 1 - j]) }
    IN  \/ diff = {}
        \/ LET j == CHOOSE x \in diff : \A y \in diff : x <= y
           IN  win[j] < Complement(win[n + 1 - j])

canonical_windows_seq_scalar(s, kk, ww) ==
    LET l == kk + ww - 1
    IN  IF Len(s) < l THEN <<>>
        ELSE [i \in 1 .. Len(s) - l + 1 |-> IsCanonical(Slice(s, i - 1, l))]

(* One lane of the SIMD mapper: fed (added base, base removed with delay   *)
(* l), it tells per step whether the window of the last l bases is         *)
(* canonical.  Before l bases were added the window is filled with 0.      *)
RECURSIVE CanonicalRun(_, _, _)
CanonicalRun(ar, i, win) ==
    IF i > Len(ar) THEN <<>>
    ELSE LET win1 == Append(Tail(win), ar[i][1])
         IN  <<IsCanonical(win1)>> \o CanonicalRun(ar, i + 1, win1)

canonical_mapper(ar, kk, ww) ==
    CanonicalRun(ar, 1, [i \in 1 .. kk + ww - 1 |-> 0])

---------------------------------------------------------------------------
(* The 8-way parallel base iterator of a sequence.                         *)
(* With num_kmers = |s| - (context - 1) windows, every lane covers         *)
(* n = num_kmers div 8 of them: lane j (0-based) reads the n + context - 1 *)
(* bases from j * n on.  The tail is the sequence from base 8 * n on.      *)
(* Every step yields (base, base d1 steps ago, base d2 steps ago), a base  *)
(* from before the start of the lane being 0.                              *)
ChunkLen(s, context) == SaturatingSub(Len(s), context - 1) \div L

ParLen(s, context) ==
    IF SaturatingSub(Len(s), context - 1) = 0 THEN 0
    ELSE ChunkLen(s, context) + context - 1

par_iter_bp_delayed_2(s, context, d1, d2) ==
    LET n      == ChunkLen(s, context)
        at(j, t) == IF t < 1 THEN 0 ELSE s[(j - 1) * n + t]
    IN  [len   |-> ParLen(s, context),
         lanes |-> [j \in Lanes |->
                      [t \in 1 .. ParLen(s, context) |->
                          <<at(j, t), at(j, t - d1), at(j, t - d2)>>]],
         tail  |-> DropFirst(s, L * n)]

par_iter_bp_delayed(s, context, d) == par_iter_bp_delayed_2(s, context, d, d)

(* The 8-lane vectors of a head, from its lanes: vector t holds element t  *)
(* of every lane.                                                          *)
Zip(lanes, len) == [t \in 1 .. len |-> [j \in Lanes |-> lanes[j][t]]]

---------------------------------------------------------------------------
(* Minimizers.                                                             *)

(* Leftmost position of the smallest element; only the upper half of a     *)
(* hash takes part (x & 0xffff_0000).                                      *)
position_min(hs) ==
    (CHOOSE i \in 1 .. Len(hs) :
        \A j \in 1 .. Len(hs) :
            /\ hs[i][1] <= hs[j][1]
            /\ (j < i => hs[j][1] > hs[i][1])) - 1

minimizer(s, kk) == position_min(hash_seq_scalar(FALSE, s, kk))

(* Mutant: the rightmost instead of the leftmost minimum.                   *)
minimizers_seq_scalar_rightmost(s, kk, ww) ==
    sliding_min_scalar(FALSE, hash_seq_scalar(FALSE, s, kk), ww)

minimizers_seq_scalar(s, kk, ww) ==
    sliding_min_scalar(TRUE, hash_seq_scalar(FALSE, s, kk), ww)

(* Mutant: the tail is shifted by head_len instead of 8 * head_len.        *)
minimizers_seq_simd_tail_offset(s, kk, ww) ==
    LET l        == kk + ww - 1
        it       == par_iter_bp_delayed(s, kk + ww - 1, kk - 1)
        lane(j)  == sliding_min_mapper(TRUE, hash_mapper(FALSE, it.lanes[j], kk),
                                       ww, kk, it.len, j - 1)
        all      == Zip([j \in Lanes |-> lane(j)], it.len)
        hd       == DropFirst(all, l - 1)
        head_len == Len(hd)
        tl       == minimizers_seq_scalar(it.tail, kk, ww)
    IN  [head |-> hd,
         tail |-> [i \in 1 .. Len(tl) |-> tl[i] + head_len]]

(* Mutant: l instead of l - 1 vectors of the head are dropped.             *)
minimizers_seq_simd_drop_l(s, kk, ww) ==
    LET l        == kk + ww - 1
        it       == par_iter_bp_delayed(s, kk + ww - 1, kk - 1)
        lane(j)  == sliding_min_mapper(TRUE, hash_mapper(FALSE, it.lanes[j], kk),
                                       ww, kk, it.len, j - 1)
        all      == Zip([j \in Lanes |-> lane(j)], it.len)
        hd       == DropFirst(all, l)
        head_len == Len(hd)
        tl       == minimizers_seq_scalar(it.tail, kk, ww)
    IN  [head |-> hd,
         tail |-> [i \in 1 .. Len(tl) |-> tl[i] + 8 * head_len]]

minimizers_seq_simd(s, kk, ww) ==
    LET l        == kk + ww - 1
        it       == par_iter_bp_delayed(s, kk + ww - 1, kk - 1)
        lane(j)  == sliding_min_mapper(TRUE, hash_mapper(FALSE, it.lanes[j], kk),
                                       ww, kk, it.len, j - 1)
        all      == Zip([j \in Lanes |-> lane(j)], it.len)
        hd       == DropFirst(all, l - 1)
        head_len == Len(hd)
        tl       == minimizers_seq_scalar(it.tail, kk, ww)
    IN  [head |-> hd,
         tail |-> [i \in 1 .. Len(tl) |-> tl[i] + 8 * head_len]]

(* Mutant: the leftmost minimum whether the window is canonical or not.    *)
canonical_minimizers_seq_scalar_leftmost(s, kk, ww) ==
    LET kmer_hashes == hash_seq_scalar(TRUE, s, kk)
        left        == sliding_min_scalar(TRUE, kmer_hashes, ww)
        canonical   == canonical_windows_seq_scalar(s, kk, ww)
    IN  [i \in 1 .. Len(canonical) |-> left[i]]

canonical_minimizers_seq_scalar(s, kk, ww) ==
    LET kmer_hashes == hash_seq_scalar(TRUE, s, kk)
        left        == sliding_min_scalar(TRUE, kmer_hashes, ww)
        right       == sliding_min_scalar(FALSE, kmer_hashes, ww)
        canonical   == canonical_windows_seq_scalar(s, kk, ww)
    IN  [i \in 1 .. Len(canonical) |->
            IF canonical[i] THEN left[i] ELSE right[i]]

(* Mutant: the blend takes rmin of a canonical window and lmin otherwise.  *)
canonical_minimizers_seq_simd_swapped(s, kk, ww) ==
    LET l        == kk + ww - 1
        it       == par_iter_bp_delayed_2(s, kk + ww - 1, kk - 1, l)
        lane(j)  ==
            LET nthash    == hash_mapper(TRUE, it.lanes[j], kk)
                canonical == canonical_mapper(it.lanes[j], kk, ww)
                lr        == sliding_lr_min_mapper(nthash, ww, kk, it.len, j - 1)
            IN  [t \in 1 .. it.len |->
                    IF canonical[t] THEN lr[t][2] ELSE lr[t][1]]
        all      == Zip([j \in Lanes |-> lane(j)], it.len)
        hd       == DropFirst(all, l - 1)
        head_len == Len(hd)
        tl       == canonical_minimizers_seq_scalar(it.tail, kk, ww)
    IN  [head |-> hd,
         tail |-> [i \in 1 .. Len(tl) |-> tl[i] + 8 * head_len]]

(* Mutant: the positions of the tail are not shifted past the head.        *)
canonical_minimizers_seq_simd_tail_unshifted(s, kk, ww) ==
    LET l        == kk + ww - 1
        it       == par_iter_bp_delayed_2(s, kk + ww - 1, kk - 1, l)
        lane(j)  ==
            LET nthash    == hash_mapper(TRUE, it.lanes[j], kk)
                canonical == canonical_mapper(it.lanes[j], kk, ww)
                lr        == sliding_lr_min_mapper(nthash, ww, kk, it.len, j - 1)
            IN  [t \in 1 .. it.len |->
                    IF canonical[t] THEN lr[t][1] ELSE lr[t][2]]
        all      == Zip([j \in Lanes |-> lane(j)], it.len)
        hd       == DropFirst(all, l - 1)
        tl       == canonical_minimizers_seq_scalar(it.tail, kk, ww)
    IN  [head |-> hd, tail |-> tl]

canonical_minimizers_seq_simd(s, kk, ww) ==
    LET l        == kk + ww - 1
        it       == par_iter_bp_delayed_2(s, kk + ww - 1, kk - 1, l)
        lane(j)  ==
            LET nthash    == hash_mapper(TRUE, it.lanes[j], kk)
                canonical == canonical_mapper(it.lanes[j], kk, ww)
                lr        == sliding_lr_min_mapper(nthash, ww, kk, it.len, j - 1)
            IN  [t \in 1 .. it.len |->
                    IF canonical[t] THEN lr[t][1] ELSE lr[t][2]]
        all      == Zip([j \in Lanes |-> lane(j)], it.len)
        hd       == DropFirst(all, l - 1)
        head_len == Len(hd)
        tl       == canonical_minimizers_seq_scalar(it.tail, kk, ww)
    IN  [head |-> hd,
         tail |-> [i \in 1 .. Len(tl) |-> tl[i] + 8 * head_len]]

---------------------------------------------------------------------------
(* collect: linearise an 8-lane head and a scalar tail.                    *)

transpose(m) == [r \in Lanes |-> [c \in Lanes |-> m[c][r]]]

ZeroMatrix == [r \in Lanes |-> [c \in Lanes |-> 0]]

(* out[start ..][.. Len(vals)] = vals, with 0-based start.                 *)
WriteSlice(out, start, vals) ==
    [p \in 1 .. Len(out) |->
        IF p - 1 >= start /\ p - 1 < start + Len(vals)
        THEN vals[p - start] ELSE out[p]]

InBounds(out, start, n) == start + n <= Len(out)

RECURSIVE WriteRows(_, _, _, _, _, _)
WriteRows(out, t, j, len, base, n) ==
    IF j = L THEN out
    ELSE WriteRows(WriteSlice(out, j * len + base, SubSeq(t[j + 1], 1, n)),
                   t, j + 1, len, base, n)

(* State of collect_into after out_vec.resize(len * 8 + tail.len(), 0).    *)
(* ok tells that every write so far was inside out_vec.                    *)
CollectInit(len, tail_len) ==
    [out |-> [p \in 1 .. len * 8 + tail_len |-> 0],
     m   |-> ZeroMatrix,
     i   |-> 0,
     ok  |-> TRUE]

(* A mutant of CollectStep: the rows of the matrix are written as they     *)
(* came in, without the transposition.                                     *)
CollectStep_untransposed(st, x, len) ==
    LET m1   == [st.m EXCEPT ![(st.i % 8) + 1] = x]
        full == st.i % 8 = 7
        base == 8 * (st.i \div 8)
    IN  [out |-> IF full THEN WriteRows(st.out, m1, 0, len, base, 8)
                 ELSE st.out,
         m   |-> m1,
         i   |-> st.i + 1,
         ok  |-> st.ok /\ (full => \A j \in 0 .. L - 1 :
                                      InBounds(st.out, j * len + base, 8))]

(* One iteration of par_head.for_each.                                     *)
CollectStep(st, x, len) ==
    LET m1   == [st.m EXCEPT ![(st.i % 8) + 1] = x]
        full == st.i % 8 = 7
        base == 8 * (st.i \div 8)
    IN  [out |-> IF full THEN WriteRows(st.out, transpose(m1), 0, len, base, 8)
                 ELSE st.out,
         m   |-> m1,
         i   |-> st.i + 1,
         ok  |-> st.ok /\ (full => \A j \in 0 .. L - 1 :
                                      InBounds(st.out, j * len + base, 8))]

(* The unfinished part of length i % 8, then the tail.                     *)
CollectFinish(st, tl, len) ==
    LET kk   == st.i % 8
        base == 8 * (st.i \div 8)
        out1 == WriteRows(st.out, transpose(st.m), 0, len, base, kk)
    IN  [out |-> WriteSlice(out1, 8 * len, tl),
         m   |-> st.m,
         i   |-> st.i,
         ok  |-> /\ st.ok
                 /\ \A j \in 0 .. L - 1 : InBounds(st.out, j * len + base, kk)
                 /\ InBounds(st.out, 8 * len, Len(tl))]

RECURSIVE CollectLoop(_, _, _, _)
CollectLoop(st, hd, t, len) ==
    IF t > Len(hd) THEN st
    ELSE CollectLoop(CollectStep(st, hd[t], len), hd, t + 1, len)

collect_into(hd, tl) ==
    LET len == Len(hd)
    IN  CollectFinish(CollectLoop(CollectInit(len, Len(tl)), hd, 1, len), tl, len)

collect(hd, tl) == collect_into(hd, tl).out

(* The reference order: all of lane 0, then lane 1, ..., then the tail.    *)
Linearise(hd, tl) ==
    [p \in 1 .. L * Len(hd) + Len(tl) |->
        IF p <= L * Len(hd)
        THEN hd[((p - 1) % Len(hd)) + 1][((p - 1) \div Len(hd)) + 1]
        ELSE tl[p - L * Len(hd)]]

---------------------------------------------------------------------------
(* dedup: the AVX2 kernels that compact the lanes that differ from their   *)
(* predecessor, and the in-place dedup of a vector built on them.          *)

(* For each of the 256 masks of lanes equal to their predecessor, the      *)
(* shuffle that sends the other lanes to the front.                        *)
UNIQSHUF == <<
    <<0, 1, 2, 3, 4, 5, 6, 7>>,
    <<1, 2, 3, 4, 5, 6, 7, 0>>,
    <<0, 2, 3, 4, 5, 6, 7, 0>>,
    <<2, 3, 4, 5, 6, 7, 0, 0>>,
    <<0, 1, 3, 4, 5, 6, 7, 0>>,
    <<1, 3, 4, 5, 6, 7, 0, 0>>,
    <<0, 3, 4, 5, 6, 7, 0, 0>>,
    <<3, 4, 5, 6, 7, 0, 0, 0>>,
    <<0, 1, 2, 4, 5, 6, 7, 0>>,
    <<1, 2, 4, 5, 6, 7, 0, 0>>,
    <<0, 2, 4, 5, 6, 7, 0, 0>>,
    <<2, 4, 5, 6, 7, 0, 0, 0>>,
    <<0, 1, 4, 5, 6, 7, 0, 0>>,
    <<1, 4, 5, 6, 7, 0, 0, 0>>,
    <<0, 4, 5, 6, 7, 0, 0, 0>>,
    <<4, 5, 6, 7, 0, 0, 0, 0>>,
    <<0, 1, 2, 3, 5, 6, 7, 0>>,
    <<1, 2, 3, 5, 6, 7, 0, 0>>,
    <<0, 2, 3, 5, 6, 7, 0, 0>>,
    <<2, 3, 5, 6, 7, 0, 0, 0>>,
    <<0, 1, 3, 5, 6, 7, 0, 0>>,
    <<1, 3, 5, 6, 7, 0, 0, 0>>,
    <<0, 3, 5, 6, 7, 0, 0, 0>>,
    <<3, 5, 6, 7, 0, 0, 0, 0>>,
    <<0, 1, 2, 5, 6, 7, 0, 0>>,
    <<1, 2, 5, 6, 7, 0, 0, 0>>,
    <<0, 2, 5, 6, 7, 0, 0, 0>>,
    <<2, 5, 6, 7, 0, 0, 0, 0>>,
    <<0, 1, 5, 6, 7, 0, 0, 0>>,
    <<1, 5, 6, 7, 0, 0, 0, 0>>,
    <<0, 5, 6, 7, 0, 0, 0, 0>>,
    <<5, 6, 7, 0, 0, 0, 0, 0>>,
    <<0, 1, 2, 3, 4, 6, 7, 0>>,
    <<1, 2, 3, 4, 6, 7, 0, 0>>,
    <<0, 2, 3, 4, 6, 7, 0, 0>>,
    <<2, 3, 4, 6, 7, 0, 0, 0>>,
    <<0, 1, 3, 4, 6, 7, 0, 0>>,
    <<1, 3, 4, 6, 7, 0, 0, 0>>,
    <<0, 3, 4, 6, 7, 0, 0, 0>>,
    <<3, 4, 6, 7, 0, 0, 0, 0>>,
    <<0, 1, 2, 4, 6, 7, 0, 0>>,
    <<1, 2, 4, 6, 7, 0, 0, 0>>,
    <<0, 2, 4, 6, 7, 0, 0, 0>>,
    <<2, 4, 6, 7, 0, 0, 0, 0>>,
    <<0, 1, 4, 6, 7, 0, 0, 0>>,
    <<1, 4, 6, 7, 0, 0, 0, 0>>,
    <<0, 4, 6, 7, 0, 0, 0, 0>>,
    <<4, 6, 7, 0, 0, 0, 0, 0>>,
    <<0, 1, 2, 3, 6, 7, 0, 0>>,
    <<1, 2, 3, 6, 7, 0, 0, 0>>,
    <<0, 2, 3, 6, 7, 0, 0, 0>>,
    <<2, 3, 6, 7, 0, 0, 0, 0>>,
    <<0, 1, 3, 6, 7, 0, 0, 0>>,
    <<1, 3, 6, 7, 0, 0, 0, 0>>,
    <<0, 3, 6, 7, 0, 0, 0, 0>>,
    <<3, 6, 7, 0, 0, 0, 0, 0>>,
    <<0, 1, 2, 6, 7, 0, 0, 0>>,
    <<1, 2, 6, 7, 0, 0, 0, 0>>,
    <<0, 2, 6, 7, 0, 0, 0, 0>>,
    <<2, 6, 7, 0, 0, 0, 0, 0>>,
    <<0, 1, 6, 7, 0, 0, 0, 0>>,
    <<1, 6, 7, 0, 0, 0, 0, 0>>,
    <<0, 6, 7, 0, 0, 0, 0, 0>>,
    <<6, 7, 0, 0, 0, 0, 0, 0>>,
    <<0, 1, 2, 3, 4, 5, 7, 0>>,
    <<1, 2, 3, 4, 5, 7, 0, 0>>,
    <<0, 2, 3, 4, 5, 7, 0, 0>>,
    <<2, 3, 4, 5, 7, 0, 0, 0>>,
    <<0, 1, 3, 4, 5, 7, 0, 0>>,
    <<1, 3, 4, 5, 7, 0, 0, 0>>,
    <<0, 3, 4, 5, 7, 0, 0, 0>>,
    <<3, 4, 5, 7, 0, 0, 0, 0>>,
    <<0, 1, 2, 4, 5, 7, 0, 0>>,
    <<1, 2, 4, 5, 7, 0, 0, 0>>,
    <<0, 2, 4, 5, 7, 0, 0, 0>>,
    <<2, 4, 5, 7, 0, 0, 0, 0>>,
    <<0, 1, 4, 5, 7, 0, 0, 0>>,
    <<1, 4, 5, 7, 0, 0, 0, 0>>,
    <<0, 4, 5, 7, 0, 0, 0, 0>>,
    <<4, 5, 7, 0, 0, 0, 0, 0>>,
    <<0, 1, 2, 3, 5, 7, 0, 0>>,
    <<1, 2, 3, 5, 7, 0, 0, 0>>,
    <<0, 2, 3, 5, 7, 0, 0, 0>>,
    <<2, 3, 5, 7, 0, 0, 0, 0>>,
    <<0, 1, 3, 5, 7, 0, 0, 0>>,
    <<1, 3, 5, 7, 0, 0, 0, 0>>,
    <<0, 3, 5, 7, 0, 0, 0, 0>>,
    <<3, 5, 7, 0, 0, 0, 0, 0>>,
    <<0, 1, 2, 5, 7, 0, 0, 0>>,
    <<1, 2, 5, 7, 0, 0, 0, 0>>,
    <<0, 2, 5, 7, 0, 0, 0, 0>>,
    <<2, 5, 7, 0, 0, 0, 0, 0>>,
    <<0, 1, 5, 7, 0, 0, 0, 0>>,
    <<1, 5, 7, 0, 0, 0, 0, 0>>,
    <<0, 5, 7, 0, 0, 0, 0, 0>>,
    <<5, 7, 0, 0, 0, 0, 0, 0>>,
    <<0, 1, 2, 3, 4, 7, 0, 0>>,
    <<1, 2, 3, 4, 7, 0, 0, 0>>,
    <<0, 2, 3, 4, 7, 0, 0, 0>>,
    <<2, 3, 4, 7, 0, 0, 0, 0>>,
    <<0, 1, 3, 4, 7, 0, 0, 0>>,
    <<1, 3, 4, 7, 0, 0, 0, 0>>,
    <<0, 3, 4, 7, 0, 0, 0, 0>>,
    <<3, 4, 7, 0, 0, 0, 0, 0>>,
    <<0, 1, 2, 4, 7, 0, 0, 0>>,
    <<1, 2, 4, 7, 0, 0, 0, 0>>,
    <<0, 2, 4, 7, 0, 0, 0, 0>>,
    <<2, 4, 7, 0, 0, 0, 0, 0>>,
    <<0, 1, 4, 7, 0, 0, 0, 0>>,
    <<1, 4, 7, 0, 0, 0, 0, 0>>,
    <<0, 4, 7, 0, 0, 0, 0, 0>>,
    <<4, 7, 0, 0, 0, 0, 0, 0>>,
    <<0, 1, 2, 3, 7, 0, 0, 0>>,
    <<1, 2, 3, 7, 0, 0, 0, 0>>,
    <<0, 2, 3, 7, 0, 0, 0, 0>>,
    <<2, 3, 7, 0, 0, 0, 0, 0>>,
    <<0, 1, 3, 7, 0, 0, 0, 0>>,
    <<1, 3, 7, 0, 0, 0, 0, 0>>,
    <<0, 3, 7, 0, 0, 0, 0, 0>>,
    <<3, 7, 0, 0, 0, 0, 0, 0>>,
    <<0, 1, 2, 7, 0, 0, 0, 0>>,
    <<1, 2, 7, 0, 0, 0, 0, 0>>,
    <<0, 2, 7, 0, 0, 0, 0, 0>>,
    <<2, 7, 0, 0, 0, 0, 0, 0>>,
    <<0, 1, 7, 0, 0, 0, 0, 0>>,
    <<1, 7, 0, 0, 0, 0, 0, 0>>,
    <<0, 7, 0, 0, 0, 0, 0, 0>>,
    <<7, 0, 0, 0, 0, 0, 0, 0>>,
    <<0, 1, 2, 3, 4, 5, 6, 0>>,
    <<1, 2, 3, 4, 5, 6, 0, 0>>,
    <<0, 2, 3, 4, 5, 6, 0, 0>>,
    <<2, 3, 4, 5, 6, 0, 0, 0>>,
    <<0, 1, 3, 4, 5, 6, 0, 0>>,
    <<1, 3, 4, 5, 6, 0, 0, 0>>,
    <<0, 3, 4, 5, 6, 0, 0, 0>>,
    <<3, 4, 5, 6, 0, 0, 0, 0>>,
    <<0, 1, 2, 4, 5, 6, 0, 0>>,
    <<1, 2, 4, 5, 6, 0, 0, 0>>,
    <<0, 2, 4, 5, 6, 0, 0, 0>>,
    <<2, 4, 5, 6, 0, 0, 0, 0>>,
    <<0, 1, 4, 5, 6, 0, 0, 0>>,
    <<1, 4, 5, 6, 0, 0, 0, 0>>,
    <<0, 4, 5, 6, 0, 0, 0, 0>>,
    <<4, 5, 6, 0, 0, 0, 0, 0>>,
    <<0, 1, 2, 3, 5, 6, 0, 0>>,
    <<1, 2, 3, 5, 6, 0, 0, 0>>,
    <<0, 2, 3, 5, 6, 0, 0, 0>>,
    <<2, 3, 5, 6, 0, 0, 0, 0>>,
    <<0, 1, 3, 5, 6, 0, 0, 0>>,
    <<1, 3, 5, 6, 0, 0, 0, 0>>,
    <<0, 3, 5, 6, 0, 0, 0, 0>>,
    <<3, 5, 6, 0, 0, 0, 0, 0>>,
    <<0, 1, 2, 5, 6, 0, 0, 0>>,
    <<1, 2, 5, 6, 0, 0, 0, 0>>,
    <<0, 2, 5, 6, 0, 0, 0, 0>>,
    <<2, 5, 6, 0, 0, 0, 0, 0>>,
    <<0, 1, 5, 6, 0, 0, 0, 0>>,
    <<1, 5, 6, 0, 0, 0, 0, 0>>,
    <<0, 5, 6, 0, 0, 0, 0, 0>>,
    <<5, 6, 0, 0, 0, 0, 0, 0>>,
    <<0, 1, 2, 3, 4, 6, 0, 0>>,
    <<1, 2, 3, 4, 6, 0, 0, 0>>,
    <<0, 2, 3, 4, 6, 0, 0, 0>>,
    <<2, 3, 4, 6, 0, 0, 0, 0>>,
    <<0, 1, 3, 4, 6, 0, 0, 0>>,
    <<1, 3, 4, 6, 0, 0, 0, 0>>,
    <<0, 3, 4, 6, 0, 0, 0, 0>>,
    <<3, 4, 6, 0, 0, 0, 0, 0>>,
    <<0, 1, 2, 4, 6, 0, 0, 0>>,
    <<1, 2, 4, 6, 0, 0, 0, 0>>,
    <<0, 2, 4, 6, 0, 0, 0, 0>>,
    <<2, 4, 6, 0, 0, 0, 0, 0>>,
    <<0, 1, 4, 6, 0, 0, 0, 0>>,
    <<1, 4, 6, 0, 0, 0, 0, 0>>,
    <<0, 4, 6, 0, 0, 0, 0, 0>>,
    <<4, 6, 0, 0, 0, 0, 0, 0>>,
    <<0, 1, 2, 3, 6, 0, 0, 0>>,
    <<1, 2, 3, 6, 0, 0, 0, 0>>,
    <<0, 2, 3, 6, 0, 0, 0, 0>>,
    <<2, 3, 6, 0, 0, 0, 0, 0>>,
    <<0, 1, 3, 6, 0, 0, 0, 0>>,
    <<1, 3, 6, 0, 0, 0, 0, 0>>,
    <<0, 3, 6, 0, 0, 0, 0, 0>>,
    <<3, 6, 0, 0, 0, 0, 0, 0>>,
    <<0, 1, 2, 6, 0, 0, 0, 0>>,
    <<1, 2, 6, 0, 0, 0, 0, 0>>,
    <<0, 2, 6, 0, 0, 0, 0, 0>>,
    <<2, 6, 0, 0, 0, 0, 0, 0>>,
    <<0, 1, 6, 0, 0, 0, 0, 0>>,
    <<1, 6, 0, 0, 0, 0, 0, 0>>,
    <<0, 6, 0, 0, 0, 0, 0, 0>>,
    <<6, 0, 0, 0, 0, 0, 0, 0>>,
    <<0, 1, 2, 3, 4, 5, 0, 0>>,
    <<1, 2, 3, 4, 5, 0, 0, 0>>,
    <<0, 2, 3, 4, 5, 0, 0, 0>>,
    <<2, 3, 4, 5, 0, 0, 0, 0>>,
    <<0, 1, 3, 4, 5, 0, 0, 0>>,
    <<1, 3, 4, 5, 0, 0, 0, 0>>,
    <<0, 3, 4, 5, 0, 0, 0, 0>>,
    <<3, 4, 5, 0, 0, 0, 0, 0>>,
    <<0, 1, 2, 4, 5, 0, 0, 0>>,
    <<1, 2, 4, 5, 0, 0, 0, 0>>,
    <<0, 2, 4, 5, 0, 0, 0, 0>>,
    <<2, 4, 5, 0, 0, 0, 0, 0>>,
    <<0, 1, 4, 5, 0, 0, 0, 0>>,
    <<1, 4, 5, 0, 0, 0, 0, 0>>,
    <<0, 4, 5, 0, 0, 0, 0, 0>>,
    <<4, 5, 0, 0, 0, 0, 0, 0>>,
    <<0, 1, 2, 3, 5, 0, 0, 0>>,
    <<1, 2, 3, 5, 0, 0, 0, 0>>,
    <<0, 2, 3, 5, 0, 0, 0, 0>>,
    <<2, 3, 5, 0, 0, 0, 0, 0>>,
    <<0, 1, 3, 5, 0, 0, 0, 0>>,
    <<1, 3, 5, 0, 0, 0, 0, 0>>,
    <<0, 3, 5, 0, 0, 0, 0, 0>>,
    <<3, 5, 0, 0, 0, 0, 0, 0>>,
    <<0, 1, 2, 5, 0, 0, 0, 0>>,
    <<1, 2, 5, 0, 0, 0, 0, 0>>,
    <<0, 2, 5, 0, 0, 0, 0, 0>>,
    <<2, 5, 0, 0, 0, 0, 0, 0>>,
    <<0, 1, 5, 0, 0, 0, 0, 0>>,
    <<1, 5, 0, 0, 0, 0, 0, 0>>,
    <<0, 5, 0, 0, 0, 0, 0, 0>>,
    <<5, 0, 0, 0, 0, 0, 0, 0>>,
    <<0, 1, 2, 3, 4, 0, 0, 0>>,
    <<1, 2, 3, 4, 0, 0, 0, 0>>,
    <<0, 2, 3, 4, 0, 0, 0, 0>>,
    <<2, 3, 4, 0, 0, 0, 0, 0>>,
    <<0, 1, 3, 4, 0, 0, 0, 0>>,
    <<1, 3, 4, 0, 0, 0, 0, 0>>,
    <<0, 3, 4, 0, 0, 0, 0, 0>>,
    <<3, 4, 0, 0, 0, 0, 0, 0>>,
    <<0, 1, 2, 4, 0, 0, 0, 0>>,
    <<1, 2, 4, 0, 0, 0, 0, 0>>,
    <<0, 2, 4, 0, 0, 0, 0, 0>>,
    <<2, 4, 0, 0, 0, 0, 0, 0>>,
    <<0, 1, 4, 0, 0, 0, 0, 0>>,
    <<1, 4, 0, 0, 0, 0, 0, 0>>,
    <<0, 4, 0, 0, 0, 0, 0, 0>>,
    <<4, 0, 0, 0, 0, 0, 0, 0>>,
    <<0, 1, 2, 3, 0, 0, 0, 0>>,
    <<1, 2, 3, 0, 0, 0, 0, 0>>,
    <<0, 2, 3, 0, 0, 0, 0, 0>>,
    <<2, 3, 0, 0, 0, 0, 0, 0>>,
    <<0, 1, 3, 0, 0, 0, 0, 0>>,
    <<1, 3, 0, 0, 0, 0, 0, 0>>,
    <<0, 3, 0, 0, 0, 0, 0, 0>>,
    <<3, 0, 0, 0, 0, 0, 0, 0>>,
    <<0, 1, 2, 0, 0, 0, 0, 0>>,
    <<1, 2, 0, 0, 0, 0, 0, 0>>,
    <<0, 2, 0, 0, 0, 0, 0, 0>>,
    <<2, 0, 0, 0, 0, 0, 0, 0>>,
    <<0, 1, 0, 0, 0, 0, 0, 0>>,
    <<1, 0, 0, 0, 0, 0, 0, 0>>,
    <<0, 0, 0, 0, 0, 0, 0, 0>>,
    <<0, 0, 0, 0, 0, 0, 0, 0>>
>>

(* _mm256_permutevar8x32_epi32: lane i of the result is lane idx[i] of a.  *)
permutevar8x32(a, idx) == [i \in Lanes |-> a[(idx[i] % L) + 1]]

(* _mm256_movemask_ps of _mm256_cmpeq_epi32: bit i is set iff a[i] = b[i]. *)
RECURSIVE movemask_cmpeq(_, _, _)
movemask_cmpeq(a, b, i) ==
    IF i > L THEN 0
    ELSE (IF a[i] = b[i] THEN 2 ^ (i - 1) ELSE 0) + movemask_cmpeq(a, b, i + 1)

RECURSIVE count_ones(_)
count_ones(m) == IF m = 0 THEN 0 ELSE (m % 2) + count_ones(m \div 2)

(* _mm256_blend_epi32(a, b, imm): lane i is b[i] where bit i of imm is     *)
(* set, else a[i].                                                         *)
blend(a, b, imm) ==
    [i \in Lanes |-> IF (imm \div 2 ^ (i - 1)) % 2 = 1 THEN b[i] ELSE a[i]]

(* _mm256_loadu_si256 at vv.as_ptr().add(at): a lane past the end of vv    *)
(* reads whatever lies there, g.                                           *)
loadu(vv, at, g) ==
    [i \in Lanes |-> IF at + i <= Len(vv) THEN vv[at + i] ELSE g]

(* _mm256_storeu_si256 at vv.as_mut_ptr().add(at): 8 lanes are written.    *)
storeu(vv, at, val) ==
    SubSeq(vv, 1, at) \o SubSeq(val, 1, L) \o SubSeq(vv, at + L + 1, Len(vv))

(* The write stays inside vv.                                              *)
StoreInBounds(vv, at) == at + L <= Len(vv)

(* One past the highest index that an 8-wide load or store at 'at' touches.*)
WideEnd(at) == at + L

Highest(S) == CHOOSE x \in S : \A y \in S : y <= x

write_unique_with_prev(pv, new, vv, wi) ==
    LET m                 == movemask_cmpeq(pv, new, 1)
        numberofnewvalues == L - count_ones(m)
        key               == UNIQSHUF[m + 1]
        val               == permutevar8x32(new, key)
    IN  [v |-> storeu(vv, wi, val), write_idx |-> wi + numberofnewvalues]

append_unique_vals(old, new, vals, vv, wi) ==
    LET recon             == blend(old, new, 127)
        movebyone_mask    == <<7, 0, 1, 2, 3, 4, 5, 6>>
        vec_tmp           == permutevar8x32(recon, movebyone_mask)
        m                 == movemask_cmpeq(vec_tmp, new, 1)
        numberofnewvalues == L - count_ones(m)
        key               == UNIQSHUF[m + 1]
        val               == permutevar8x32(vals, key)
    IN  [v |-> storeu(vv, wi, val), write_idx |-> wi + numberofnewvalues]

(* Vec::dedup: every element equal to its immediate predecessor is         *)
(* removed.  The range lo .. hi is split in halves to keep the depth low.  *)
RECURSIVE DedupRange(_, _, _)
DedupRange(s, lo, hi) ==
    IF lo > hi THEN <<>>
    ELSE IF lo = hi
         THEN IF lo > 1 /\ s[lo] = s[lo - 1] THEN <<>> ELSE <<s[lo]>>
         ELSE LET mid == (lo + hi) \div 2
              IN  DedupRange(s, lo, mid) \o DedupRange(s, mid + 1, hi)

Dedup(s) == DedupRange(s, 1, Len(s))

(* One iteration of the vector loop of dedup_vec, mutated: prev is loaded  *)
(* after the write instead of one iteration ahead.                         *)
VectorStep_prev_after_write(vv, wi, ri, pv, g) ==
    LET new == loadu(vv, ri, g)
        r   == write_unique_with_prev(pv, new, vv, wi)
    IN  [v         |-> r.v,
         write_idx |-> r.write_idx,
         prev      |-> loadu(r.v, ri - 1 + L, g),
         read_idx  |-> ri + L]

(* One iteration of the vector loop of dedup_vec.                          *)
VectorStep(vv, wi, ri, pv, g) ==
    LET nextprev == loadu(vv, ri - 1 + L, g)
        new      == loadu(vv, ri, g)
        r        == write_unique_with_prev(pv, new, vv, wi)
    IN  [v         |-> r.v,
         write_idx |-> r.write_idx,
         prev      |-> nextprev,
         read_idx  |-> ri + L]

(* One iteration of the scalar loop of dedup_vec.                          *)
ScalarStep(vv, wi, ri, old_v) ==
    LET newv == vv[ri + 1]
    IN  [v         |-> IF newv # old_v THEN [vv EXCEPT ![wi + 1] = newv] ELSE vv,
         write_idx |-> IF newv # old_v THEN wi + 1 ELSE wi,
         oldv      |-> newv,
         read_idx  |-> ri + 1]

---------------------------------------------------------------------------
(* collect_and_dedup: linearise and drop the elements equal to their       *)
(* predecessor; per-lane buffers live in the thread-local CACHE.           *)

EmptyCache == [j \in Lanes |-> <<>>]

Last(s) == s[Len(s)]

(* if last != Some(x) { push(x) }                                          *)
PushUnique(s, x) == IF Len(s) > 0 /\ Last(s) = x THEN s ELSE Append(s, x)

RECURSIVE PushAllUnique(_, _, _)
PushAllUnique(s, xs, i) ==
    IF i > Len(xs) THEN s ELSE PushAllUnique(PushUnique(s, xs[i]), xs, i + 1)

(* State of collect_and_dedup_into before the first vector of the head:    *)
(* v is the borrowed CACHE, offsets holds the upper halves of the lanes of *)
(* the offsets vector (its lower halves are 0).                            *)
DedupInit(cache) ==
    [v         |-> cache,
     write_idx |-> [j \in Lanes |-> 0],
     old       |-> [j \in Lanes |-> [c \in Lanes |-> MaxU32]],
     offsets   |-> [c \in Lanes |-> c - 1],
     m         |-> [r \in Lanes |-> [c \in Lanes |-> ZeroU32]],
     i         |-> 0]

(* Upper half of the lanes of lane_offsets[j], 0-based j.                  *)
lane_offsets(j, len) == (j * len) % Half

(* v[j].resize(v[j].len() + 1024, 0) when fewer than 8 slots are left.     *)
Reserve(vj, wi) ==
    IF wi + 8 > Len(vj) THEN vj \o [p \in 1 .. 1024 |-> ZeroU32] ELSE vj

(* The body of 'for j in 0..8' for one full 8x8 block, 1-based j; offs is  *)
(* offsets after the increment.                                            *)
DedupLane(super, st, t, offs, j, len) ==
    LET lane == t[j]
        vals == IF super
                THEN [c \in Lanes |->
                        <<(offs[c] + lane_offsets(j - 1, len)) % Half, lane[c][2]>>]
                ELSE lane
    IN  append_unique_vals(st.old[j], lane, vals,
                           Reserve(st.v[j], st.write_idx[j]), st.write_idx[j])

(* One iteration of par_head.for_each.                                     *)
DedupStep(super, st, x, len) ==
    LET m1   == [st.m EXCEPT ![(st.i % 8) + 1] = x]
        full == st.i % 8 = 7
        t    == transpose(m1)
        offs == [c \in Lanes |-> (st.offsets[c] + 8) % Half]
        r    == [j \in Lanes |-> DedupLane(super, st, t, offs, j, len)]
    IN  IF full
        THEN [v         |-> [j \in Lanes |-> r[j].v],
              write_idx |-> [j \in Lanes |-> r[j].write_idx],
              old       |-> t,
              offsets   |-> offs,
              m         |-> m1,
              i         |-> st.i + 1]
        ELSE [st EXCEPT !.m = m1, !.i = st.i + 1]

RECURSIVE DedupLoop(_, _, _, _, _)
DedupLoop(super, st, hd, t, len) ==
    IF t > Len(hd) THEN st
    ELSE DedupLoop(super, DedupStep(super, st, hd[t], len), hd, t + 1, len)

(* A mutant: the lanes are not truncated.                                  *)
DedupPartial_untruncated(st) ==
    LET t  == transpose(st.m)
        kk == st.i % 8
    IN  [j \in Lanes |-> PushAllUnique(st.v[j], SubSeq(t[j], 1, kk), 1)]

(* v[j].truncate(write_idx[j]), then the unfinished part of length i % 8.  *)
DedupPartial(st) ==
    LET t  == transpose(st.m)
        kk == st.i % 8
    IN  [j \in Lanes |->
            PushAllUnique(SubSeq(st.v[j], 1, st.write_idx[j]),
                          SubSeq(t[j], 1, kk), 1)]

(* lane without its leading elements equal to the last element of out.     *)
StripLeading(out, lane) ==
    LET differ == { p \in 1 .. Len(lane) : Len(out) = 0 \/ lane[p] # Last(out) }
        first  == IF differ = {} THEN Len(lane) + 1
                  ELSE CHOOSE p \in differ : \A q \in differ : p <= q
    IN  SubSeq(lane, first, Len(lane))

RECURSIVE Flatten(_, _, _)
Flatten(out, v1, j) ==
    IF j > L THEN out
    ELSE Flatten(out \o StripLeading(out, v1[j]), v1, j + 1)

(* A mutant of the flattening: out_vec is overwritten by the lanes.        *)
FlattenInto_overwriting(out, v1) == Flatten(<<>>, v1, 1)

(* 'for lane in v.iter()': the lanes are appended to out_vec in turn.      *)
FlattenInto(out, v1) == Flatten(out, v1, 1)

collect_and_dedup_into(super, hd, tl, out, cache) ==
    LET len == Len(hd)
        st  == DedupLoop(super, DedupInit(cache), hd, 1, len)
        v1  == DedupPartial(st)
    IN  [out_vec |-> PushAllUnique(FlattenInto(out, v1), tl, 1),
         CACHE   |-> v1]

collect_and_dedup(super, hd, tl, cache) ==
    collect_and_dedup_into(super, hd, tl, <<>>, cache)

---------------------------------------------------------------------------
(* anti_lex: the hash of a k-mer is its 2-bit representation with the      *)
(* first character inverted; only the last 16 characters fit.              *)

RECURSIVE BitAnd(_, _, _)
BitAnd(a, b, n) ==
    IF n = 0 THEN 0
    ELSE ((a % 2) * (b % 2)) + 2 * BitAnd(a \div 2, b \div 2, n - 1)

AndByte == [a \in 0 .. 255 |-> [b \in 0 .. 255 |-> BitAnd(a, b, 8)]]

And16(a, b) ==
    AndByte[a \div 256][b \div 256] * 256 + AndByte[a % 256][b % 256]

And32(x, y) == <<And16(x[1], y[1]), And16(x[2], y[2])>>

(* u32 << 1; the top bit is shifted out.                                   *)
Shl1(x) == <<((x[1] * 2) % Half) + (x[2] \div (Half \div 2)), (x[2] * 2) % Half>>

RECURSIVE Shl(_, _)
Shl(x, r) == IF r = 0 THEN x ELSE Shl(Shl1(x), r - 1)

(* a as u32, for a base a.                                                 *)
U32OfBase(a) == <<0, a>>

(* x - 1 for a u32 x > 0.                                                  *)
Pred32(x) == IF x[2] > 0 THEN <<x[1], x[2] - 1>> ELSE <<x[1] - 1, Half - 1>>

(* if k < 16 { (1 << (2 * k)) - 1 } else { u32::MAX }                      *)
AntiLexMask(kk) == IF kk < 16 THEN Pred32(Shl(<<0, 1>>, 2 * kk)) ELSE MaxU32

(* if k <= 16 { 3 << (2 * k - 2) } else { 3 << 30 }                        *)
AntiLexAnti(kk) == IF kk <= 16 THEN Shl(<<0, 3>>, 2 * kk - 2) ELSE Shl(<<0, 3>>, 30)

(* hfw = (hfw << 2) ^ a, for the bases s[i .. n] in turn: the values hfw   *)
(* takes.                                                                  *)
RECURSIVE AntiLexShifts(_, _, _, _)
AntiLexShifts(s, i, n, hfw) ==
    IF i > n THEN <<>>
    ELSE LET h == Xor32(Shl(hfw, 2), U32OfBase(s[i]))
         IN  <<h>> \o AntiLexShifts(s, i + 1, n, h)

(* hfw after the bases s[1 .. n].                                          *)
AntiLexPrime(s, n) ==
    IF n = 0 THEN ZeroU32 ELSE AntiLexShifts(s, 1, n, ZeroU32)[n]

anti_lex_kmer(s) ==
    LET kk   == Len(s)
        anti == AntiLexAnti(kk)
    IN  Xor32(AntiLexPrime(s, kk), anti)

(* add.map(|a| { hfw = ((hfw << 2) ^ a) & mask; hfw ^ anti }) on the bases  *)
(* s[i .. Len(s)].                                                         *)
RECURSIVE AntiLexRun(_, _, _, _, _)
AntiLexRun(s, i, hfw, mask, anti) ==
    IF i > Len(s) THEN <<>>
    ELSE LET h == And32(Xor32(Shl(hfw, 2), U32OfBase(s[i])), mask)
         IN  <<Xor32(h, anti)>> \o AntiLexRun(s, i + 1, h, mask, anti)

(* The number of elements take(n) removes from an iterator of len items.   *)
Taken(len, n) == IF len < n THEN len ELSE n

(* A mutant of anti_lex_seq_scalar: the mask is never applied.             *)
anti_lex_seq_scalar_unmasked(s, kk) ==
    LET anti  == AntiLexAnti(kk)
        taken == Taken(Len(s), kk - 1)
        hfw   == AntiLexPrime(s, taken)
    IN  AntiLexRun(s, taken + 1, hfw, MaxU32, anti)

anti_lex_seq_scalar(s, kk) ==
    LET mask  == AntiLexMask(kk)
        anti  == AntiLexAnti(kk)
        taken == Taken(Len(s), kk - 1)
        hfw   == AntiLexPrime(s, taken)
    IN  AntiLexRun(s, taken + 1, hfw, mask, anti)

(* Seq::par_iter_bp: the bases of the 8 chunks, without delayed bases.     *)
par_iter_bp(s, context) ==
    LET it == par_iter_bp_delayed(s, context, 0)
    IN  [len   |-> it.len,
         lanes |-> [j \in Lanes |-> [t \in 1 .. it.len |-> it.lanes[j][t][1]]],
         tail  |-> it.tail]

(* A mutant of anti_lex_seq_simd: k bases are taken before the first hash  *)
(* instead of k - 1.                                                       *)
anti_lex_seq_simd_take_k(s, kk, ww) ==
    LET it    == par_iter_bp(s, kk + ww - 1)
        mask  == AntiLexMask(kk)
        anti  == AntiLexAnti(kk)
        taken == Taken(it.len, kk)
        lanes == [j \in Lanes |->
                    AntiLexRun(it.lanes[j], taken + 1,
                               AntiLexPrime(it.lanes[j], taken), mask, anti)]
    IN  [head |-> Zip(lanes, it.len - taken),
         tail |-> anti_lex_seq_scalar(it.tail, kk)]

(* Lane j of h_fw takes the bases of chunk j.                              *)
anti_lex_seq_simd(s, kk, ww) ==
    LET it    == par_iter_bp(s, kk + ww - 1)
        mask  == AntiLexMask(kk)
        anti  == AntiLexAnti(kk)
        taken == Taken(it.len, kk - 1)
        lanes == [j \in Lanes |->
                    AntiLexRun(it.lanes[j], taken + 1,
                               AntiLexPrime(it.lanes[j], taken), mask, anti)]
    IN  [head |-> Zip(lanes, it.len - taken),
         tail |-> anti_lex_seq_scalar(it.tail, kk)]

---------------------------------------------------------------------------
(* Specification of the minimizer entry points: an input is drawn, the     *)
(* scalar entry point runs, then the SIMD entry point, then collect.       *)

Odd(n) == n % 2 = 1

Init ==
    /\ pc = "start"
    /\ w \in 1 .. MaxW
    /\ \/ k \in 1 .. MaxK /\ seq \in Inputs
       \/ k = LongK /\ seq \in LongInputs
    /\ mode \in {"fwd", "rc"}
    /\ (mode # "fwd" => Odd(k + w - 1))
    /\ scalar_out = <<>>
    /\ rev_out = <<>>
    /\ head = <<>>
    /\ tail = <<>>
    /\ simd_out = <<>>
    /\ SUPER = FALSE /\ CACHE = EmptyCache /\ out_vec = <<>>
    /\ input = <<>> /\ v = <<>> /\ write_idx = 0 /\ read_idx = 0
    /\ prev = <<>> /\ oldv = 0 /\ accessed = 0
    /\ call = Unused /\ holders = 0 /\ locals = Unused
    /\ app = Unused /\ anchor = Unused

Scalar ==
    /\ pc = "start"
    /\ pc' = "scalar"
    /\ scalar_out' = IF mode = "fwd" THEN minimizers_seq_scalar(seq, k, w)
                     ELSE canonical_minimizers_seq_scalar(seq, k, w)
    /\ UNCHANGED <<seq, k, w, mode, rev_out, head, tail, simd_out, colvars, vecvars, auxvars>>

ScalarRevComp ==
    /\ pc = "scalar"
    /\ mode # "fwd"
    /\ pc' = "revcomp"
    /\ rev_out' = canonical_minimizers_seq_scalar(RevComp(seq), k, w)
    /\ UNCHANGED <<seq, k, w, mode, scalar_out, head, tail, simd_out, colvars, vecvars, auxvars>>

Simd ==
    /\ pc = IF mode = "fwd" THEN "scalar" ELSE "revcomp"
    /\ pc' = "simd"
    /\ LET r == IF mode = "fwd" THEN minimizers_seq_simd(seq, k, w)
                ELSE canonical_minimizers_seq_simd(seq, k, w)
       IN  head' = r.head /\ tail' = r.tail
    /\ UNCHANGED <<minvars, simd_out, colvars, vecvars, auxvars>>

Collect ==
    /\ pc = "simd"
    /\ pc' = "collected"
    /\ simd_out' = collect(head, tail)
    /\ UNCHANGED <<minvars, head, tail, colvars, vecvars, auxvars>>

Next == Scalar \/ ScalarRevComp \/ Simd \/ Collect

Spec == Init /\ [][Next]_vars

---------------------------------------------------------------------------
(* Specification of the collectors: a head of N vectors and a tail of T    *)
(* scalars are given; collect runs, then collect_and_dedup::<SUPER>, which *)
(* leaves its per-lane buffers in CACHE for the next call on the thread.   *)

(* The p-th value (0-based) of the linearised stream of each kind.         *)
S5Stream == <<1, 1, 2, 2, 2, 3, 1, 1>>

StreamKinds == {"ident", "const", "runs2", "runs3", "runs11", "mod", "hi", "max", "s5"}

StreamVal(kind, p) ==
    CASE kind = "ident"  -> <<0, p>>
      [] kind = "const"  -> <<0, 7>>
      [] kind = "runs2"  -> <<0, p \div 2>>
      [] kind = "runs3"  -> <<0, p \div 3>>
      [] kind = "runs11" -> <<0, p \div 11>>
      [] kind = "mod"    -> <<0, (p \div 2) % 3>>
      [] kind = "hi"     -> <<(p \div 2) % 2, 5>>
      [] kind = "max"    -> IF (p \div 2) % 2 = 0 THEN MaxU32 ELSE <<0, p \div 2>>
      [] kind = "s5"     -> <<0, S5Stream[(p % 8) + 1]>>

(* The head of n vectors and the tail of t scalars whose linearisation is  *)
(* the stream of the kind: lane j of vector i is the value j * n + i.      *)
HeadOf(kind, n) ==
    [i \in 1 .. n |-> [j \in Lanes |-> StreamVal(kind, (j - 1) * n + (i - 1))]]

TailOf(kind, n, t) == [i \in 1 .. t |-> StreamVal(kind, L * n + (i - 1))]

InitCollect ==
    /\ pc = "simd"
    /\ \E kind \in StreamKinds, n \in 0 .. MaxHead, t \in 0 .. MaxTail :
          head = HeadOf(kind, n) /\ tail = TailOf(kind, n, t)
    /\ SUPER \in BOOLEAN
    /\ CACHE = EmptyCache
    /\ out_vec = <<>>
    /\ simd_out = <<>>
    /\ seq = <<>> /\ k = 1 /\ w = 1 /\ mode = "fwd"
    /\ scalar_out = <<>> /\ rev_out = <<>>
    /\ input = <<>> /\ v = <<>> /\ write_idx = 0 /\ read_idx = 0
    /\ prev = <<>> /\ oldv = 0 /\ accessed = 0
    /\ call = Unused /\ holders = 0 /\ locals = Unused
    /\ app = Unused /\ anchor = Unused

CollectAndDedup ==
    /\ pc = "collected"
    /\ pc' = "deduped"
    /\ LET r == collect_and_dedup(SUPER, head, tail, CACHE)
       IN  out_vec' = r.out_vec /\ CACHE' = r.CACHE
    /\ UNCHANGED <<minvars, head, tail, simd_out, SUPER, vecvars, auxvars>>

(* The thread goes on to its next sequence.                                *)
NextInput ==
    /\ pc = "deduped"
    /\ pc' = "simd"
    /\ \E kind \in {"ident", "const"}, n \in {0, L + 1} :
          head' = HeadOf(kind, n) /\ tail' = TailOf(kind, n, 1)
    /\ SUPER' \in BOOLEAN
    /\ simd_out' = <<>>
    /\ out_vec' = <<>>
    /\ UNCHANGED <<minvars, CACHE, vecvars, auxvars>>

NextCollect == Collect \/ CollectAndDedup \/ NextInput

SpecCollect == InitCollect /\ [][NextCollect]_vars

---------------------------------------------------------------------------
(* Specification of dedup_vec: a vector is given and deduplicated in       *)
(* place, one loop iteration per step.                                     *)

VecPatterns ==
    { <<1>>, <<1, 2>>, <<1, 1, 2>>, <<0, 1, 2, 2, 3, 4>>, S5Stream,
      <<5, 5, 5, 5, 5, 5, 5, 5, 5, 7>>, <<3, 3, 3, 1, 1, 2, 9, 9, 9, 9, 4>>,
      <<1, 2, 3, 4, 5, 6, 7, 8, 8>>, <<1, 1, 1, 1, 1, 1, 1, 2, 3>> }

VecInputs ==
    { SeqOf(p, n) : p \in VecPatterns, n \in 0 .. MaxVecLen }
    \cup { [i \in 1 .. n |-> (i - 1) \div r] : r \in 1 .. 3, n \in 0 .. MaxVecLen }

(* What a load may find past the end of the vector.                        *)
Garbage == {0, 8}

InitDedupVec ==
    /\ pc = "start"
    /\ input \in VecInputs
    /\ v = input
    /\ write_idx = 0 /\ read_idx = 0 /\ prev = <<>> /\ oldv = 0 /\ accessed = 0
    /\ call = Unused /\ holders = 0 /\ locals = Unused
    /\ app = Unused /\ anchor = Unused
    /\ SUPER = FALSE /\ CACHE = EmptyCache /\ out_vec = <<>>
    /\ head = <<>> /\ tail = <<>> /\ simd_out = <<>>
    /\ seq = <<>> /\ k = 1 /\ w = 1 /\ mode = "fwd"
    /\ scalar_out = <<>> /\ rev_out = <<>>

(* v.is_empty(): return.                                                   *)
DedupVecEmpty ==
    /\ pc = "start"
    /\ Len(v) = 0
    /\ pc' = "done"
    /\ UNCHANGED <<minvars, head, tail, simd_out, colvars, vecvars, auxvars>>

DedupVecStart ==
    /\ pc = "start"
    /\ Len(v) > 0
    /\ pc' = "vector"
    /\ write_idx' = 1
    /\ read_idx' = 1
    /\ \E g \in Garbage : prev' = loadu(v, 0, g)
    /\ accessed' = WideEnd(0)
    /\ UNCHANGED <<minvars, head, tail, simd_out, colvars, auxvars, input, v, oldv>>

DedupVecVector ==
    /\ pc = "vector"
    /\ read_idx + 2 * L - 1 <= Len(v)
    /\ \E g \in Garbage :
          LET r == VectorStep(v, write_idx, read_idx, prev, g)
          IN  /\ v' = r.v
              /\ write_idx' = r.write_idx
              /\ prev' = r.prev
              /\ read_idx' = r.read_idx
    /\ accessed' = Highest({accessed, WideEnd(read_idx - 1 + L),
                             WideEnd(read_idx), WideEnd(write_idx)})
    /\ UNCHANGED <<pc, minvars, head, tail, simd_out, colvars, auxvars, input, oldv>>

DedupVecVectorDone ==
    /\ pc = "vector"
    /\ ~(read_idx + 2 * L - 1 <= Len(v))
    /\ pc' = "scalar"
    /\ oldv' = v[write_idx]
    /\ accessed' = Highest({accessed, write_idx})
    /\ UNCHANGED <<minvars, head, tail, simd_out, colvars, auxvars,
                   input, v, write_idx, read_idx, prev>>

DedupVecScalar ==
    /\ pc = "scalar"
    /\ read_idx < Len(v)
    /\ LET r == ScalarStep(v, write_idx, read_idx, oldv)
       IN  /\ v' = r.v
           /\ write_idx' = r.write_idx
           /\ oldv' = r.oldv
           /\ read_idx' = r.read_idx
           /\ accessed' = Highest({accessed, read_idx + 1, r.write_idx})
    /\ UNCHANGED <<pc, minvars, head, tail, simd_out, colvars, auxvars, input, prev>>

(* v.resize(write_idx, 0)                                                  *)
DedupVecResize ==
    /\ pc = "scalar"
    /\ ~(read_idx < Len(v))
    /\ pc' = "done"
    /\ v' = SubSeq(v, 1, write_idx)
    /\ UNCHANGED <<minvars, head, tail, simd_out, colvars, auxvars,
                   input, write_idx, read_idx, prev, oldv, accessed>>

NextDedupVec ==
    \/ DedupVecEmpty
    \/ DedupVecStart
    \/ DedupVecVector
    \/ DedupVecVectorDone
    \/ DedupVecScalar
    \/ DedupVecResize

SpecDedupVec == InitDedupVec /\ [][NextDedupVec]_vars

---------------------------------------------------------------------------
(* Specification of the anti-lex hashes: a sequence and k are drawn, the   *)
(* scalar iterator runs, then the SIMD iterator with w = 1, then collect.  *)

AntiLexKs == {1, 2, 3, 4, 15, 16, 17, 32, 33}

AntiLexInputs ==
    { SeqOf(p, n) : p \in LongPatterns \cup {<<0>>, <<3>>}, n \in 0 .. MaxAntiLen }

InitAntiLex ==
    /\ pc = "start"
    /\ k \in AntiLexKs
    /\ w = 1
    /\ seq \in AntiLexInputs
    /\ mode = "anti_lex"
    /\ scalar_out = <<>> /\ rev_out = <<>>
    /\ head = <<>> /\ tail = <<>> /\ simd_out = <<>>
    /\ SUPER = FALSE /\ CACHE = EmptyCache /\ out_vec = <<>>
    /\ input = <<>> /\ v = <<>> /\ write_idx = 0 /\ read_idx = 0
    /\ prev = <<>> /\ oldv = 0 /\ accessed = 0
    /\ call = Unused /\ holders = 0 /\ locals = Unused
    /\ app = Unused /\ anchor = Unused

AntiLexScalar ==
    /\ pc = "start"
    /\ pc' = "scalar"
    /\ scalar_out' = anti_lex_seq_scalar(seq, k)
    /\ UNCHANGED <<seq, k, w, mode, rev_out, head, tail, simd_out, colvars, vecvars, auxvars>>

AntiLexSimd ==
    /\ pc = "scalar"
    /\ pc' = "simd"
    /\ LET r == anti_lex_seq_simd(seq, k, w)
       IN  head' = r.head /\ tail' = r.tail
    /\ UNCHANGED <<minvars, simd_out, colvars, vecvars, auxvars>>

NextAntiLex == AntiLexScalar \/ AntiLexSimd \/ Collect

SpecAntiLex == InitAntiLex /\ [][NextAntiLex]_vars

---------------------------------------------------------------------------
(* dedup, NEON: the same kernel built from a byte table lookup.            *)

(* A mutant of the NEON table: row 3 sends lane 3 in front of lane 2.      *)
UNIQSHUF_NEON_row3 == [UNIQSHUF EXCEPT ![4] = <<3, 2, 4, 5, 6, 7, 0, 0>>]

UNIQSHUF_NEON == <<
    <<0, 1, 2, 3, 4, 5, 6, 7>>,
    <<1, 2, 3, 4, 5, 6, 7, 0>>,
    <<0, 2, 3, 4, 5, 6, 7, 0>>,
    <<2, 3, 4, 5, 6, 7, 0, 0>>,
    <<0, 1, 3, 4, 5, 6, 7, 0>>,
    <<1, 3, 4, 5, 6, 7, 0, 0>>,
    <<0, 3, 4, 5, 6, 7, 0, 0>>,
    <<3, 4, 5, 6, 7, 0, 0, 0>>,
    <<0, 1, 2, 4, 5, 6, 7, 0>>,
    <<1, 2, 4, 5, 6, 7, 0, 0>>,
    <<0, 2, 4, 5, 6, 7, 0, 0>>,
    <<2, 4, 5, 6, 7, 0, 0, 0>>,
    <<0, 1, 4, 5, 6, 7, 0, 0>>,
    <<1, 4, 5, 6, 7, 0, 0, 0>>,
    <<0, 4, 5, 6, 7, 0, 0, 0>>,
    <<4, 5, 6, 7, 0, 0, 0, 0>>,
    <<0, 1, 2, 3, 5, 6, 7, 0>>,
    <<1, 2, 3, 5, 6, 7, 0, 0>>,
    <<0, 2, 3, 5, 6, 7, 0, 0>>,
    <<2, 3, 5, 6, 7, 0, 0, 0>>,
    <<0, 1, 3, 5, 6, 7, 0, 0>>,
    <<1, 3, 5, 6, 7, 0, 0, 0>>,
    <<0, 3, 5, 6, 7, 0, 0, 0>>,
    <<3, 5, 6, 7, 0, 0, 0, 0>>,
    <<0, 1, 2, 5, 6, 7, 0, 0>>,
    <<1, 2, 5, 6, 7, 0, 0, 0>>,
    <<0, 2, 5, 6, 7, 0, 0, 0>>,
    <<2, 5, 6, 7, 0, 0, 0, 0>>,
    <<0, 1, 5, 6, 7, 0, 0, 0>>,
    <<1, 5, 6, 7, 0, 0, 0, 0>>,
    <<0, 5, 6, 7, 0, 0, 0, 0>>,
    <<5, 6, 7, 0, 0, 0, 0, 0>>,
    <<0, 1, 2, 3, 4, 6, 7, 0>>,
    <<1, 2, 3, 4, 6, 7, 0, 0>>,
    <<0, 2, 3, 4, 6, 7, 0, 0>>,
    <<2, 3, 4, 6, 7, 0, 0, 0>>,
    <<0, 1, 3, 4, 6, 7, 0, 0>>,
    <<1, 3, 4, 6, 7, 0, 0, 0>>,
    <<0, 3, 4, 6, 7, 0, 0, 0>>,
    <<3, 4, 6, 7, 0, 0, 0, 0>>,
    <<0, 1, 2, 4, 6, 7, 0, 0>>,
    <<1, 2, 4, 6, 7, 0, 0, 0>>,
    <<0, 2, 4, 6, 7, 0, 0, 0>>,
    <<2, 4, 6, 7, 0, 0, 0, 0>>,
    <<0, 1, 4, 6, 7, 0, 0, 0>>,
    <<1, 4, 6, 7, 0, 0, 0, 0>>,
    <<0, 4, 6, 7, 0, 0, 0, 0>>,
    <<4, 6, 7, 0, 0, 0, 0, 0>>,
    <<0, 1, 2, 3, 6, 7, 0, 0>>,
    <<1, 2, 3, 6, 7, 0, 0, 0>>,
    <<0, 2, 3, 6, 7, 0, 0, 0>>,
    <<2, 3, 6, 7, 0, 0, 0, 0>>,
    <<0, 1, 3, 6, 7, 0, 0, 0>>,
    <<1, 3, 6, 7, 0, 0, 0, 0>>,
    <<0, 3, 6, 7, 0, 0, 0, 0>>,
    <<3, 6, 7, 0, 0, 0, 0, 0>>,
    <<0, 1, 2, 6, 7, 0, 0, 0>>,
    <<1, 2, 6, 7, 0, 0, 0, 0>>,
    <<0, 2, 6, 7, 0, 0, 0, 0>>,
    <<2, 6, 7, 0, 0, 0, 0, 0>>,
    <<0, 1, 6, 7, 0, 0, 0, 0>>,
    <<1, 6, 7, 0, 0, 0, 0, 0>>,
    <<0, 6, 7, 0, 0, 0, 0, 0>>,
    <<6, 7, 0, 0, 0, 0, 0, 0>>,
    <<0, 1, 2, 3, 4, 5, 7, 0>>,
    <<1, 2, 3, 4, 5, 7, 0, 0>>,
    <<0, 2, 3, 4, 5, 7, 0, 0>>,
    <<2, 3, 4, 5, 7, 0, 0, 0>>,
    <<0, 1, 3, 4, 5, 7, 0, 0>>,
    <<1, 3, 4, 5, 7, 0, 0, 0>>,
    <<0, 3, 4, 5, 7, 0, 0, 0>>,
    <<3, 4, 5, 7, 0, 0, 0, 0>>,
    <<0, 1, 2, 4, 5, 7, 0, 0>>,
    <<1, 2, 4, 5, 7, 0, 0, 0>>,
    <<0, 2, 4, 5, 7, 0, 0, 0>>,
    <<2, 4, 5, 7, 0, 0, 0, 0>>,
    <<0, 1, 4, 5, 7, 0, 0, 0>>,
    <<1, 4, 5, 7, 0, 0, 0, 0>>,
    <<0, 4, 5, 7, 0, 0, 0, 0>>,
    <<4, 5, 7, 0, 0, 0, 0, 0>>,
    <<0, 1, 2, 3, 5, 7, 0, 0>>,
    <<1, 2, 3, 5, 7, 0, 0, 0>>,
    <<0, 2, 3, 5, 7, 0, 0, 0>>,
    <<2, 3, 5, 7, 0, 0, 0, 0>>,
    <<0, 1, 3, 5, 7, 0, 0, 0>>,
    <<1, 3, 5, 7, 0, 0, 0, 0>>,
    <<0, 3, 5, 7, 0, 0, 0, 0>>,
    <<3, 5, 7, 0, 0, 0, 0, 0>>,
    <<0, 1, 2, 5, 7, 0, 0, 0>>,
    <<1, 2, 5, 7, 0, 0, 0, 0>>,
    <<0, 2, 5, 7, 0, 0, 0, 0>>,
    <<2, 5, 7, 0, 0, 0, 0, 0>>,
    <<0, 1, 5, 7, 0, 0, 0, 0>>,
    <<1, 5, 7, 0, 0, 0, 0, 0>>,
    <<0, 5, 7, 0, 0, 0, 0, 0>>,
    <<5, 7, 0, 0, 0, 0, 0, 0>>,
    <<0, 1, 2, 3, 4, 7, 0, 0>>,
    <<1, 2, 3, 4, 7, 0, 0, 0>>,
    <<0, 2, 3, 4, 7, 0, 0, 0>>,
    <<2, 3, 4, 7, 0, 0, 0, 0>>,
    <<0, 1, 3, 4, 7, 0, 0, 0>>,
    <<1, 3, 4, 7, 0, 0, 0, 0>>,
    <<0, 3, 4, 7, 0, 0, 0, 0>>,
    <<3, 4, 7, 0, 0, 0, 0, 0>>,
    <<0, 1, 2, 4, 7, 0, 0, 0>>,
    <<1, 2, 4, 7, 0, 0, 0, 0>>,
    <<0, 2, 4, 7, 0, 0, 0, 0>>,
    <<2, 4, 7, 0, 0, 0, 0, 0>>,
    <<0, 1, 4, 7, 0, 0, 0, 0>>,
    <<1, 4, 7, 0, 0, 0, 0, 0>>,
    <<0, 4, 7, 0, 0, 0, 0, 0>>,
    <<4, 7, 0, 0, 0, 0, 0, 0>>,
    <<0, 1, 2, 3, 7, 0, 0, 0>>,
    <<1, 2, 3, 7, 0, 0, 0, 0>>,
    <<0, 2, 3, 7, 0, 0, 0, 0>>,
    <<2, 3, 7, 0, 0, 0, 0, 0>>,
    <<0, 1, 3, 7, 0, 0, 0, 0>>,
    <<1, 3, 7, 0, 0, 0, 0, 0>>,
    <<0, 3, 7, 0, 0, 0, 0, 0>>,
    <<3, 7, 0, 0, 0, 0, 0, 0>>,
    <<0, 1, 2, 7, 0, 0, 0, 0>>,
    <<1, 2, 7, 0, 0, 0, 0, 0>>,
    <<0, 2, 7, 0, 0, 0, 0, 0>>,
    <<2, 7, 0, 0, 0, 0, 0, 0>>,
    <<0, 1, 7, 0, 0, 0, 0, 0>>,
    <<1, 7, 0, 0, 0, 0, 0, 0>>,
    <<0, 7, 0, 0, 0, 0, 0, 0>>,
    <<7, 0, 0, 0, 0, 0, 0, 0>>,
    <<0, 1, 2, 3, 4, 5, 6, 0>>,
    <<1, 2, 3, 4, 5, 6, 0, 0>>,
    <<0, 2, 3, 4, 5, 6, 0, 0>>,
    <<2, 3, 4, 5, 6, 0, 0, 0>>,
    <<0, 1, 3, 4, 5, 6, 0, 0>>,
    <<1, 3, 4, 5, 6, 0, 0, 0>>,
    <<0, 3, 4, 5, 6, 0, 0, 0>>,
    <<3, 4, 5, 6, 0, 0, 0, 0>>,
    <<0, 1, 2, 4, 5, 6, 0, 0>>,
    <<1, 2, 4, 5, 6, 0, 0, 0>>,
    <<0, 2, 4, 5, 6, 0, 0, 0>>,
    <<2, 4, 5, 6, 0, 0, 0, 0>>,
    <<0, 1, 4, 5, 6, 0, 0, 0>>,
    <<1, 4, 5, 6, 0, 0, 0, 0>>,
    <<0, 4, 5, 6, 0, 0, 0, 0>>,
    <<4, 5, 6, 0, 0, 0, 0, 0>>,
    <<0, 1, 2, 3, 5, 6, 0, 0>>,
    <<1, 2, 3, 5, 6, 0, 0, 0>>,
    <<0, 2, 3, 5, 6, 0, 0, 0>>,
    <<2, 3, 5, 6, 0, 0, 0, 0>>,
    <<0, 1, 3, 5, 6, 0, 0, 0>>,
    <<1, 3, 5, 6, 0, 0, 0, 0>>,
    <<0, 3, 5, 6, 0, 0, 0, 0>>,
    <<3, 5, 6, 0, 0, 0, 0, 0>>,
    <<0, 1, 2, 5, 6, 0, 0, 0>>,
    <<1, 2, 5, 6, 0, 0, 0, 0>>,
    <<0, 2, 5, 6, 0, 0, 0, 0>>,
    <<2, 5, 6, 0, 0, 0, 0, 0>>,
    <<0, 1, 5, 6, 0, 0, 0, 0>>,
    <<1, 5, 6, 0, 0, 0, 0, 0>>,
    <<0, 5, 6, 0, 0, 0, 0, 0>>,
    <<5, 6, 0, 0, 0, 0, 0, 0>>,
    <<0, 1, 2, 3, 4, 6, 0, 0>>,
    <<1, 2, 3, 4, 6, 0, 0, 0>>,
    <<0, 2, 3, 4, 6, 0, 0, 0>>,
    <<2, 3, 4, 6, 0, 0, 0, 0>>,
    <<0, 1, 3, 4, 6, 0, 0, 0>>,
    <<1, 3, 4, 6, 0, 0, 0, 0>>,
    <<0, 3, 4, 6, 0, 0, 0, 0>>,
    <<3, 4, 6, 0, 0, 0, 0, 0>>,
    <<0, 1, 2, 4, 6, 0, 0, 0>>,
    <<1, 2, 4, 6, 0, 0, 0, 0>>,
    <<0, 2, 4, 6, 0, 0, 0, 0>>,
    <<2, 4, 6, 0, 0, 0, 0, 0>>,
    <<0, 1, 4, 6, 0, 0, 0, 0>>,
    <<1, 4, 6, 0, 0, 0, 0, 0>>,
    <<0, 4, 6, 0, 0, 0, 0, 0>>,
    <<4, 6, 0, 0, 0, 0, 0, 0>>,
    <<0, 1, 2, 3, 6, 0, 0, 0>>,
    <<1, 2, 3, 6, 0, 0, 0, 0>>,
    <<0, 2, 3, 6, 0, 0, 0, 0>>,
    <<2, 3, 6, 0, 0, 0, 0, 0>>,
    <<0, 1, 3, 6, 0, 0, 0, 0>>,
    <<1, 3, 6, 0, 0, 0, 0, 0>>,
    <<0, 3, 6, 0, 0, 0, 0, 0>>,
    <<3, 6, 0, 0, 0, 0, 0, 0>>,
    <<0, 1, 2, 6, 0, 0, 0, 0>>,
    <<1, 2, 6, 0, 0, 0, 0, 0>>,
    <<0, 2, 6, 0, 0, 0, 0, 0>>,
    <<2, 6, 0, 0, 0, 0, 0, 0>>,
    <<0, 1, 6, 0, 0, 0, 0, 0>>,
    <<1, 6, 0, 0, 0, 0, 0, 0>>,
    <<0, 6, 0, 0, 0, 0, 0, 0>>,
    <<6, 0, 0, 0, 0, 0, 0, 0>>,
    <<0, 1, 2, 3, 4, 5, 0, 0>>,
    <<1, 2, 3, 4, 5, 0, 0, 0>>,
    <<0, 2, 3, 4, 5, 0, 0, 0>>,
    <<2, 3, 4, 5, 0, 0, 0, 0>>,
    <<0, 1, 3, 4, 5, 0, 0, 0>>,
    <<1, 3, 4, 5, 0, 0, 0, 0>>,
    <<0, 3, 4, 5, 0, 0, 0, 0>>,
    <<3, 4, 5, 0, 0, 0, 0, 0>>,
    <<0, 1, 2, 4, 5, 0, 0, 0>>,
    <<1, 2, 4, 5, 0, 0, 0, 0>>,
    <<0, 2, 4, 5, 0, 0, 0, 0>>,
    <<2, 4, 5, 0, 0, 0, 0, 0>>,
    <<0, 1, 4, 5, 0, 0, 0, 0>>,
    <<1, 4, 5, 0, 0, 0, 0, 0>>,
    <<0, 4, 5, 0, 0, 0, 0, 0>>,
    <<4, 5, 0, 0, 0, 0, 0, 0>>,
    <<0, 1, 2, 3, 5, 0, 0, 0>>,
    <<1, 2, 3, 5, 0, 0, 0, 0>>,
    <<0, 2, 3, 5, 0, 0, 0, 0>>,
    <<2, 3, 5, 0, 0, 0, 0, 0>>,
    <<0, 1, 3, 5, 0, 0, 0, 0>>,
    <<1, 3, 5, 0, 0, 0, 0, 0>>,
    <<0, 3, 5, 0, 0, 0, 0, 0>>,
    <<3, 5, 0, 0, 0, 0, 0, 0>>,
    <<0, 1, 2, 5, 0, 0, 0, 0>>,
    <<1, 2, 5, 0, 0, 0, 0, 0>>,
    <<0, 2, 5, 0, 0, 0, 0, 0>>,
    <<2, 5, 0, 0, 0, 0, 0, 0>>,
    <<0, 1, 5, 0, 0, 0, 0, 0>>,
    <<1, 5, 0, 0, 0, 0, 0, 0>>,
    <<0, 5, 0, 0, 0, 0, 0, 0>>,
    <<5, 0, 0, 0, 0, 0, 0, 0>>,
    <<0, 1, 2, 3, 4, 0, 0, 0>>,
    <<1, 2, 3, 4, 0, 0, 0, 0>>,
    <<0, 2, 3, 4, 0, 0, 0, 0>>,
    <<2, 3, 4, 0, 0, 0, 0, 0>>,
    <<0, 1, 3, 4, 0, 0, 0, 0>>,
    <<1, 3, 4, 0, 0, 0, 0, 0>>,
    <<0, 3, 4, 0, 0, 0, 0, 0>>,
    <<3, 4, 0, 0, 0, 0, 0, 0>>,
    <<0, 1, 2, 4, 0, 0, 0, 0>>,
    <<1, 2, 4, 0, 0, 0, 0, 0>>,
    <<0, 2, 4, 0, 0, 0, 0, 0>>,
    <<2, 4, 0, 0, 0, 0, 0, 0>>,
    <<0, 1, 4, 0, 0, 0, 0, 0>>,
    <<1, 4, 0, 0, 0, 0, 0, 0>>,
    <<0, 4, 0, 0, 0, 0, 0, 0>>,
    <<4, 0, 0, 0, 0, 0, 0, 0>>,
    <<0, 1, 2, 3, 0, 0, 0, 0>>,
    <<1, 2, 3, 0, 0, 0, 0, 0>>,
    <<0, 2, 3, 0, 0, 0, 0, 0>>,
    <<2, 3, 0, 0, 0, 0, 0, 0>>,
    <<0, 1, 3, 0, 0, 0, 0, 0>>,
    <<1, 3, 0, 0, 0, 0, 0, 0>>,
    <<0, 3, 0, 0, 0, 0, 0, 0>>,
    <<3, 0, 0, 0, 0, 0, 0, 0>>,
    <<0, 1, 2, 0, 0, 0, 0, 0>>,
    <<1, 2, 0, 0, 0, 0, 0, 0>>,
    <<0, 2, 0, 0, 0, 0, 0, 0>>,
    <<2, 0, 0, 0, 0, 0, 0, 0>>,
    <<0, 1, 0, 0, 0, 0, 0, 0>>,
    <<1, 0, 0, 0, 0, 0, 0, 0>>,
    <<0, 0, 0, 0, 0, 0, 0, 0>>,
    <<0, 0, 0, 0, 0, 0, 0, 0>>
>>

(* Lanes 0 to 6 are u32::MAX, lane 7 is 0.                                 *)
new_old_mask == [i \in Lanes |-> i < L]

(* mask.blend(t, f) of wide: lane i is t[i] where the mask lane is set,    *)
(* else f[i].                                                              *)
blend_mask(mask, t, f) == [i \in Lanes |-> IF mask[i] THEN t[i] ELSE f[i]]

rotate_idx == <<7, 0, 1, 2, 3, 4, 5, 6>>

(* vqtbl2q_u8 on both halves with the byte indices                         *)
(* key * 0x04040404 + 0x03020100: the four index bytes of lane i are       *)
(* 4 * key[i] + 0 .. 3, which select lane key[i] of the 32-byte table t    *)
(* when key[i] < 8; an index byte of 32 or more yields 0.                  *)
vqtbl2q_u8(t, key) == [i \in Lanes |-> IF key[i] < L THEN t[key[i] + 1] ELSE ZeroU32]

(* cmp_eq of wide: a lane of the result is all ones or 0.                  *)
cmp_eq(a, b) == [i \in Lanes |-> a[i] = b[i]]

pow1 == <<1, 2, 4, 8>>
pow2 == <<16, 32, 64, 128>>

(* vpaddd_u64(vpaddlq_u32(d & pow)): the sum of the four lanes of d & pow. *)
vpadd(d, pow, from) ==
    LET lane(i) == IF d[from + i] THEN pow[i] ELSE 0
    IN  lane(1) + lane(2) + lane(3) + lane(4)

(* A mutant: the upper half is weighted like the lower half.               *)
neon_movemask_pow1(dup) ==
    LET m1 == vpadd(dup, pow1, 0)
        m2 == vpadd(dup, pow1, 4)
    IN  m1 + m2 - BitAnd(m1, m2, 8)

(* m = (m1 | m2) as usize                                                  *)
neon_movemask(dup) ==
    LET m1 == vpadd(dup, pow1, 0)
        m2 == vpadd(dup, pow2, 4)
    IN  m1 + m2 - BitAnd(m1, m2, 8)

append_unique_vals_neon(old, new, vals, vv, wi) ==
    LET recon             == blend_mask(new_old_mask, new, old)
        prec              == vqtbl2q_u8(recon, rotate_idx)
        dup               == cmp_eq(prec, new)
        m                 == neon_movemask(dup)
        numberofnewvalues == L - count_ones(m)
        key               == UNIQSHUF_NEON[m + 1]
        val               == vqtbl2q_u8(vals, key)
    IN  [v |-> storeu(vv, wi, val), write_idx |-> wi + numberofnewvalues]

(* The mask and the row of the table that each implementation uses.        *)
ShuffleAvx(old, new) ==
    LET m == movemask_cmpeq(permutevar8x32(blend(old, new, 127),
                                           <<7, 0, 1, 2, 3, 4, 5, 6>>), new, 1)
    IN  [m |-> m, key |-> UNIQSHUF[m + 1]]

ShuffleNeon(old, new) ==
    LET m == neon_movemask(cmp_eq(vqtbl2q_u8(blend_mask(new_old_mask, new, old),
                                             rotate_idx), new))
    IN  [m |-> m, key |-> UNIQSHUF_NEON[m + 1]]

---------------------------------------------------------------------------
(* Parameter validation: an entry point is called with k and w drawn from  *)
(* 0 on; the call returns its result or panics.                            *)

MaxParam == 3

EntryPoints ==
    { "minimizer", "minimizers_seq_scalar", "minimizers_seq_simd",
      "canonical_minimizers_seq_scalar", "canonical_minimizers_seq_simd",
      "anti_lex_seq_scalar", "anti_lex_seq_simd", "anti_lex_mapper" }

(* The entry points that take w.                                           *)
TakesW == EntryPoints \ {"minimizer", "anti_lex_seq_scalar"}

CanonicalEntryPoints ==
    {"canonical_minimizers_seq_scalar", "canonical_minimizers_seq_simd"}

(* usize a - b panics when overflow checks are compiled in and b > a;      *)
(* without them it wraps and the call goes on.                             *)
SubPanics(a, b, checks) == checks /\ b > a

(* assert!(k > 0) of the k-mer hashers.                                    *)
hash_asserts(kk) == kk > 0

(* assert!(w > 0) of the sliding minimum.                                  *)
sliding_min_asserts(ww) == ww > 0

(* The canonical window detector asserts that l = k + w - 1 is odd.        *)
canonical_asserts(kk, ww) == (kk + ww - 1) % 2 = 1

Outcome(passed) == IF passed THEN "returned" ELSE "assertion"

minimizer_entry(kk) == Outcome(hash_asserts(kk))

minimizers_seq_scalar_entry(kk, ww) ==
    Outcome(hash_asserts(kk) /\ sliding_min_asserts(ww))

(* l = k + w - 1 and k - 1 are computed before the mappers are built.      *)
minimizers_seq_simd_entry(kk, ww, checks) ==
    IF SubPanics(kk + ww, 1, checks) \/ SubPanics(kk, 1, checks)
    THEN "overflow"
    ELSE Outcome(hash_asserts(kk) /\ sliding_min_asserts(ww))

canonical_minimizers_seq_scalar_entry(kk, ww) ==
    Outcome(hash_asserts(kk) /\ sliding_min_asserts(ww) /\ canonical_asserts(kk, ww))

canonical_minimizers_seq_simd_entry(kk, ww, checks) ==
    IF SubPanics(kk + ww, 1, checks) \/ SubPanics(kk, 1, checks)
    THEN "overflow"
    ELSE Outcome(hash_asserts(kk) /\ canonical_asserts(kk, ww)
                    /\ sliding_min_asserts(ww))

anti_lex_seq_scalar_entry(kk) == Outcome(kk > 0)

(* A mutant of anti_lex_seq_simd: w is not asserted.                       *)
anti_lex_seq_simd_entry_any_w(kk, ww) == Outcome(kk > 0)

anti_lex_seq_simd_entry(kk, ww) == Outcome(kk > 0 /\ ww > 0)

anti_lex_mapper_entry(kk, ww) == Outcome(kk > 0 /\ ww > 0)

EntryOutcome(e, kk, ww, checks) ==
    CASE e = "minimizer"                       -> minimizer_entry(kk)
      [] e = "minimizers_seq_scalar"           -> minimizers_seq_scalar_entry(kk, ww)
      [] e = "minimizers_seq_simd"             -> minimizers_seq_simd_entry(kk, ww, checks)
      [] e = "canonical_minimizers_seq_scalar" ->
            canonical_minimizers_seq_scalar_entry(kk, ww)
      [] e = "canonical_minimizers_seq_simd"   ->
            canonical_minimizers_seq_simd_entry(kk, ww, checks)
      [] e = "anti_lex_seq_scalar"             -> anti_lex_seq_scalar_entry(kk)
      [] e = "anti_lex_seq_simd"               -> anti_lex_seq_simd_entry(kk, ww)
      [] e = "anti_lex_mapper"                 -> anti_lex_mapper_entry(kk, ww)

(* What a returning call hands back: scalar positions or hashes, or a head *)
(* and a tail.                                                             *)
ScalarResult(e, s, kk, ww) ==
    CASE e = "minimizer"                       ->
            IF Len(s) < kk THEN <<>> ELSE <<minimizer(s, kk)>>
      [] e = "minimizers_seq_scalar"           -> minimizers_seq_scalar(s, kk, ww)
      [] e = "canonical_minimizers_seq_scalar" ->
            canonical_minimizers_seq_scalar(s, kk, ww)
      [] e = "anti_lex_seq_scalar"             -> anti_lex_seq_scalar(s, kk)
      [] OTHER                                 -> <<>>

SimdResult(e, s, kk, ww) ==
    CASE e = "minimizers_seq_simd"           -> minimizers_seq_simd(s, kk, ww)
      [] e = "canonical_minimizers_seq_simd" -> canonical_minimizers_seq_simd(s, kk, ww)
      [] e = "anti_lex_seq_simd"             -> anti_lex_seq_simd(s, kk, ww)
      [] OTHER                               -> [head |-> <<>>, tail |-> <<>>]

ParamInputs == { SeqOf(p, n) : p \in LongPatterns, n \in {MaxParam, 4 * MaxParam} }

InitParams ==
    /\ pc = "start"
    /\ k \in 0 .. MaxParam
    /\ w \in 0 .. MaxParam
    /\ seq \in ParamInputs
    /\ call \in [entry : EntryPoints, overflow_checks : BOOLEAN, outcome : {"pending"}]
    /\ mode = "fwd"
    /\ scalar_out = <<>> /\ rev_out = <<>>
    /\ head = <<>> /\ tail = <<>> /\ simd_out = <<>>
    /\ SUPER = FALSE /\ CACHE = EmptyCache /\ out_vec = <<>>
    /\ input = <<>> /\ v = <<>> /\ write_idx = 0 /\ read_idx = 0
    /\ prev = <<>> /\ oldv = 0 /\ accessed = 0
    /\ holders = 0 /\ locals = Unused
    /\ app = Unused /\ anchor = Unused

(* The call unwinds: nothing is handed back.                               *)
EntryPanics ==
    /\ pc = "start"
    /\ EntryOutcome(call.entry, k, w, call.overflow_checks) # "returned"
    /\ pc' = "called"
    /\ call' = [call EXCEPT
                  !.outcome = EntryOutcome(call.entry, k, w, call.overflow_checks)]
    /\ UNCHANGED <<minvars, head, tail, simd_out, colvars, vecvars,
                   holders, locals, app, anchor>>

EntryReturns ==
    /\ pc = "start"
    /\ EntryOutcome(call.entry, k, w, call.overflow_checks) = "returned"
    /\ pc' = "called"
    /\ call' = [call EXCEPT !.outcome = "returned"]
    /\ scalar_out' = ScalarResult(call.entry, seq, k, w)
    /\ LET r == SimdResult(call.entry, seq, k, w)
       IN  head' = r.head /\ tail' = r.tail
    /\ UNCHANGED <<seq, k, w, mode, rev_out, simd_out, colvars, vecvars,
                   holders, locals, app, anchor>>

NextParams == EntryPanics \/ EntryReturns

SpecParams == InitParams /\ [][NextParams]_vars

---------------------------------------------------------------------------
(* Specification of the calls of collect_and_dedup_into on one thread, one *)
(* step per vector of the head.  CACHE is borrowed for the whole call and  *)
(* written in place; the head iterator may itself call the collector.      *)

MaxCallHead == 9

(* RefCell::borrow_mut succeeds iff no borrow is live.                     *)
(* A mutant: the borrow is not checked.                                    *)
borrow_mut_unchecked(live) == TRUE

borrow_mut(live) == live = 0

(* The locals of the call, and the state made of them and the borrowed     *)
(* buffers.                                                                *)
LocalsOf(st) ==
    [write_idx |-> st.write_idx, old |-> st.old, offsets |-> st.offsets,
     m |-> st.m, i |-> st.i]

DedupState(cache, loc) ==
    [v |-> cache, write_idx |-> loc.write_idx, old |-> loc.old,
     offsets |-> loc.offsets, m |-> loc.m, i |-> loc.i]

CallKinds == {"ident", "const", "runs3", "max"}

CallHeads == {0, 3, L, MaxCallHead}

(* What out_vec may hold before a call; call holds out_vec and the buffers *)
(* as they are when the call is made.                                      *)
OutPrefixes == { <<>>, << <<0, 7>> >>, << <<0, 1>>, <<0, 0>> >> }

InitCache ==
    /\ pc = "idle"
    /\ \E kind \in CallKinds, n \in CallHeads, t \in 0 .. 1 :
          head = HeadOf(kind, n) /\ tail = TailOf(kind, n, t)
    /\ SUPER \in BOOLEAN
    /\ CACHE = EmptyCache
    /\ out_vec \in OutPrefixes
    /\ call = [out_vec |-> out_vec, CACHE |-> CACHE]
    /\ holders = 0
    /\ locals = Unused
    /\ simd_out = <<>>
    /\ seq = <<>> /\ k = 1 /\ w = 1 /\ mode = "fwd"
    /\ scalar_out = <<>> /\ rev_out = <<>>
    /\ input = <<>> /\ v = <<>> /\ write_idx = 0 /\ read_idx = 0
    /\ prev = <<>> /\ oldv = 0 /\ accessed = 0
    /\ app = Unused /\ anchor = Unused

(* CACHE.with(|v| { let mut v = v.borrow_mut(); ... the locals are set.    *)
DedupBegin ==
    /\ pc = "idle"
    /\ IF borrow_mut(holders)
       THEN /\ pc' = "head"
            /\ holders' = holders + 1
            /\ locals' = LocalsOf(DedupInit(CACHE))
       ELSE /\ pc' = "panicked"
            /\ UNCHANGED <<holders, locals>>
    /\ UNCHANGED <<minvars, head, tail, simd_out, colvars, vecvars, call, app, anchor>>

(* One iteration of par_head.for_each.                                     *)
DedupHead ==
    /\ pc = "head"
    /\ locals.i < Len(head)
    /\ LET st == DedupStep(SUPER, DedupState(CACHE, locals), head[locals.i + 1], Len(head))
       IN  /\ CACHE' = st.v
           /\ locals' = LocalsOf(st)
    /\ UNCHANGED <<pc, minvars, head, tail, simd_out, SUPER, out_vec, vecvars,
                   call, holders, app, anchor>>

(* The head iterator, asked for its next vector, calls                     *)
(* collect_and_dedup_into: the inner call borrows CACHE again.  A failed   *)
(* borrow panics; unwinding drops the borrow of the outer call.            *)
DedupReenter ==
    /\ pc = "head"
    /\ locals.i < Len(head)
    /\ IF borrow_mut(holders)
       THEN /\ pc' = "nested"
            /\ holders' = holders + 1
            /\ UNCHANGED locals
       ELSE /\ pc' = "panicked"
            /\ holders' = 0
            /\ UNCHANGED locals
    /\ UNCHANGED <<minvars, head, tail, simd_out, colvars, vecvars, call, app, anchor>>

(* After the loop: truncate, the unfinished part, flatten, the tail; the   *)
(* borrow ends with the closure.                                           *)
DedupFinish ==
    /\ pc = "head"
    /\ locals.i = Len(head)
    /\ pc' = "returned"
    /\ LET v1 == DedupPartial(DedupState(CACHE, locals))
       IN  /\ CACHE' = v1
           /\ out_vec' = PushAllUnique(FlattenInto(out_vec, v1), tail, 1)
    /\ holders' = holders - 1
    /\ locals' = Unused
    /\ UNCHANGED <<minvars, head, tail, simd_out, SUPER, vecvars, call, app, anchor>>

(* The thread goes on to its next call; CACHE stays.                       *)
NextCall ==
    /\ pc = "returned"
    /\ pc' = "idle"
    /\ \E kind \in {"ident", "const"}, n \in {0, 3, L} :
          head' = HeadOf(kind, n) /\ tail' = TailOf(kind, n, 1)
    /\ SUPER' \in BOOLEAN
    /\ \E o \in OutPrefixes : out_vec' = o /\ call' = [out_vec |-> o, CACHE |-> CACHE]
    /\ UNCHANGED <<minvars, simd_out, CACHE, vecvars, holders, locals, app, anchor>>

NextCache == DedupBegin \/ DedupHead \/ DedupReenter \/ DedupFinish \/ NextCall

SpecCache == InitCache /\ [][NextCache]_vars

---------------------------------------------------------------------------
(* Specification of append_unique_vals: old, new, vals, v and write_idx    *)
(* are given, with every pattern of lanes equal to their predecessor; the  *)
(* AVX2 and the NEON implementation each run on them.                      *)

Bit(m, e) == (m \div 2 ^ e) % 2

(* The number of clear bits of m below bit e.                              *)
RECURSIVE ClearBelow(_, _)
ClearBelow(m, e) == IF e = 0 THEN 0 ELSE (1 - Bit(m, e - 1)) + ClearBelow(m, e - 1)

(* Lanes of which lane e (0-based) equals its predecessor iff bit e of m   *)
(* is set, the predecessor of lane 0 being o7; with modulus 2 lanes that   *)
(* are not neighbours are equal too.                                       *)
NewOf(m, o7, modulus) == [i \in Lanes |-> (o7 + ClearBelow(m, i)) % modulus]

OldOf(o7) == [i \in Lanes |-> IF i = L THEN o7 ELSE 1 - o7]

AppendRoom == 12

AppendInputs ==
    { [old       |-> OldOf(o7),
       new       |-> NewOf(m, o7, modulus),
       vals      |-> IF marks THEN [i \in Lanes |-> 100 + i] ELSE NewOf(m, o7, modulus),
       v         |-> [p \in 1 .. AppendRoom |-> 50 + p],
       write_idx |-> wi,
       m         |-> m,
       done      |-> {},
       avx       |-> Unused,
       neon      |-> Unused] :
      m \in 0 .. 255, o7 \in {0, 1}, modulus \in {2, 16},
      marks \in BOOLEAN, wi \in {0, 3} }

InitAppend ==
    /\ pc = "start"
    /\ app \in AppendInputs
    /\ call = Unused /\ holders = 0 /\ locals = Unused /\ anchor = Unused
    /\ SUPER = FALSE /\ CACHE = EmptyCache /\ out_vec = <<>>
    /\ head = <<>> /\ tail = <<>> /\ simd_out = <<>>
    /\ seq = <<>> /\ k = 1 /\ w = 1 /\ mode = "fwd"
    /\ scalar_out = <<>> /\ rev_out = <<>>
    /\ input = <<>> /\ v = <<>> /\ write_idx = 0 /\ read_idx = 0
    /\ prev = <<>> /\ oldv = 0 /\ accessed = 0

AppendPc(done) == IF done = {"avx", "neon"} THEN "done" ELSE "start"

AppendAvx ==
    /\ pc = "start"
    /\ "avx" \notin app.done
    /\ LET r == append_unique_vals(app.old, app.new, app.vals, app.v, app.write_idx)
           s == ShuffleAvx(app.old, app.new)
       IN  app' = [app EXCEPT
                     !.avx  = [m |-> s.m, key |-> s.key, v |-> r.v,
                               write_idx |-> r.write_idx],
                     !.done = app.done \cup {"avx"}]
    /\ pc' = AppendPc(app.done \cup {"avx"})
    /\ UNCHANGED <<minvars, head, tail, simd_out, colvars, vecvars,
                   call, holders, locals, anchor>>

AppendNeon ==
    /\ pc = "start"
    /\ "neon" \notin app.done
    /\ LET r == append_unique_vals_neon(app.old, app.new, app.vals, app.v, app.write_idx)
           s == ShuffleNeon(app.old, app.new)
       IN  app' = [app EXCEPT
                     !.neon = [m |-> s.m, key |-> s.key, v |-> r.v,
                               write_idx |-> r.write_idx],
                     !.done = app.done \cup {"neon"}]
    /\ pc' = AppendPc(app.done \cup {"neon"})
    /\ UNCHANGED <<minvars, head, tail, simd_out, colvars, vecvars,
                   call, holders, locals, anchor>>

NextAppend == AppendAvx \/ AppendNeon

SpecAppend == InitAppend /\ [][NextAppend]_vars

---------------------------------------------------------------------------
(* Anchors: the sampling schemes BdAnchor and SusAnchor, scalar scans over *)
(* one window.                                                             *)

MaxAnchorW == 3
MaxAnchorK == 3

(* The characters of a window.                                             *)
Sigma == {0, 1}

(* Ord of slices: the first differing character decides, a proper prefix   *)
(* is smaller.                                                             *)
SliceLess(a, b) ==
    LET n    == IF Len(a) < Len(b) THEN Len(a) ELSE Len(b)
        diff == { p \in 1 .. n : a[p] # b[p] }
    IN  IF diff = {} THEN Len(a) < Len(b)
        ELSE LET p == CHOOSE q \in diff : \A q2 \in diff : q <= q2
             IN  a[p] < b[p]

(* Order::key: Lex compares the characters as they are, AntiLex with the   *)
(* first character inverted.                                               *)
key(o, s) ==
    IF o = "AntiLex" /\ Len(s) > 0 THEN [s EXCEPT ![1] = 255 - s[1]] ELSE s

(* min of two (key, index) pairs.                                          *)
PairMin(a, b) ==
    IF SliceLess(b[1], a[1]) \/ (b[1] = a[1] /\ b[2] < a[2]) THEN b ELSE a

Suffix(lmer, i) == SubSeq(lmer, i + 1, Len(lmer))

(* for i in from..=to { best = best.min((o.key(&lmer[i..]), i)) }          *)
RECURSIVE SusScan(_, _, _, _, _)
SusScan(o, lmer, i, to, best) ==
    IF i > to THEN best
    ELSE SusScan(o, lmer, i + 1, to, PairMin(best, <<key(o, Suffix(lmer, i)), i>>))

SusAnchor_l(ww, kk) == ww + kk - 1

SusAnchor_sample(ww, kk, o, modulo, lmer) ==
    LET best == <<key(o, lmer), 0>>
        t    == ((kk - 1) % ww) + 1
    IN  IF modulo
        THEN IF \A p \in 1 .. Len(lmer) : lmer[p] = 0
             THEN 1
             ELSE SusScan(o, lmer, 1, SusAnchor_l(ww, kk) - t, best)[2] % ww
        ELSE SusScan(o, lmer, 1, ww - 1, best)[2]

BdAnchor_l(ww) == ww

(* The rotation by i is smaller than the rotation by best at the first     *)
(* position where they differ.                                             *)
BdSmaller(lmer, ww, i, best) ==
    LET diff == { j \in 0 .. ww - 1 :
                    lmer[((i + j) % ww) + 1] # lmer[((best + j) % ww) + 1] }
    IN  /\ diff # {}
        /\ LET j == CHOOSE q \in diff : \A q2 \in diff : q <= q2
           IN  lmer[((i + j) % ww) + 1] < lmer[((best + j) % ww) + 1]

(* for i in from..to                                                       *)
RECURSIVE BdScan(_, _, _, _, _)
BdScan(lmer, ww, i, to, best) ==
    IF i >= to THEN best
    ELSE BdScan(lmer, ww, i + 1, to, IF BdSmaller(lmer, ww, i, best) THEN i ELSE best)

BdAnchor_sample(ww, r, lmer) == BdScan(lmer, ww, 1, SaturatingSub(ww, r), 0)

(* The windows of length n.                                                *)
Windows(n) == [1 .. n -> Sigma]

AnchorInputs ==
    { [scheme |-> "SusAnchor", w |-> ww, k |-> kk, r |-> 0, o |-> o,
       modulo |-> md, lmer |-> lm, sampled |-> 0] :
      ww \in 1 .. MaxAnchorW, kk \in 1 .. MaxAnchorK, o \in {"Lex", "AntiLex"},
      md \in BOOLEAN, lm \in UNION { Windows(n) : n \in 1 .. MaxAnchorW + MaxAnchorK - 1 } }
    \cup
    { [scheme |-> "BdAnchor", w |-> ww, k |-> 1, r |-> r, o |-> "Lex",
       modulo |-> FALSE, lmer |-> lm, sampled |-> 0] :
      ww \in 1 .. MaxAnchorW, r \in 0 .. MaxAnchorW + 1,
      lm \in UNION { Windows(n) : n \in 1 .. MaxAnchorW } }

(* The window handed to sample has length l().                             *)
InitAnchors ==
    /\ pc = "start"
    /\ anchor \in AnchorInputs
    /\ Len(anchor.lmer) = IF anchor.scheme = "SusAnchor"
                          THEN SusAnchor_l(anchor.w, anchor.k)
                          ELSE BdAnchor_l(anchor.w)
    /\ call = Unused /\ holders = 0 /\ locals = Unused /\ app = Unused
    /\ SUPER = FALSE /\ CACHE = EmptyCache /\ out_vec = <<>>
    /\ head = <<>> /\ tail = <<>> /\ simd_out = <<>>
    /\ seq = <<>> /\ k = 1 /\ w = 1 /\ mode = "fwd"
    /\ scalar_out = <<>> /\ rev_out = <<>>
    /\ input = <<>> /\ v = <<>> /\ write_idx = 0 /\ read_idx = 0
    /\ prev = <<>> /\ oldv = 0 /\ accessed = 0

SampleSus ==
    /\ pc = "start"
    /\ anchor.scheme = "SusAnchor"
    /\ pc' = "sampled"
    /\ anchor' = [anchor EXCEPT !.sampled =
                    SusAnchor_sample(anchor.w, anchor.k, anchor.o, anchor.modulo,
                                     anchor.lmer)]
    /\ UNCHANGED <<minvars, head, tail, simd_out, colvars, vecvars,
                   call, holders, locals, app>>

SampleBd ==
    /\ pc = "start"
    /\ anchor.scheme = "BdAnchor"
    /\ pc' = "sampled"
    /\ anchor' = [anchor EXCEPT !.sampled =
                    BdAnchor_sample(anchor.w, anchor.r, anchor.lmer)]
    /\ UNCHANGED <<minvars, head, tail, simd_out, colvars, vecvars,
                   call, holders, locals, app>>

NextAnchors == SampleSus \/ SampleBd

SpecAnchors == InitAnchors /\ [][NextAnchors]_vars

---------------------------------------------------------------------------
(* Properties of the minimizer entry points.                               *)

WindowLen == k + w - 1
NumWindows == SaturatingSub(Len(seq) + 1, WindowLen)
Window(i) == Slice(seq, i, WindowLen)
ScalarDone == pc \in {"scalar", "revcomp", "simd", "collected"}

(* C1: the positions of minimizers_seq_simd, linearised by collect (lane   *)
(* 0, lane 1, ..., then the tail), are exactly those of                    *)
(* minimizers_seq_scalar, for every k, w and sequence.                     *)
C1_SimdEqualsScalar ==
    (pc = "collected" /\ mode = "fwd") => simd_out = scalar_out

(* A run whose head holds two vectors and whose tail is not empty, with a  *)
(* length that is no multiple of 8 and windows of several k-mers.          *)
C1_Witness ==
    /\ pc = "collected" /\ mode = "fwd"
    /\ k >= 2 /\ w >= 2
    /\ Len(head) = 2 /\ Len(tail) >= 1
    /\ Len(seq) % 8 # 0
    /\ simd_out = scalar_out

(* The leftmost k-mer of a window whose full 32-bit hash is smallest.      *)
FullArgMin(win) ==
    LET hs == hash_seq_scalar(FALSE, win, k)
    IN  (CHOOSE i \in 1 .. Len(hs) :
            \A j \in 1 .. Len(hs) :
                /\ ~Less32(hs[j], hs[i])
                /\ (j < i => Less32(hs[i], hs[j]))) - 1

(* C2 as stated: minimizers_seq_scalar(s,k,w)[i] is i + the leftmost       *)
(* argmin over the w k-mers of window i of the k-mer hash.                 *)
C2_ArgMinOfHash ==
    (ScalarDone /\ mode = "fwd") =>
        /\ Len(scalar_out) = NumWindows
        /\ \A i \in 0 .. NumWindows - 1 :
               scalar_out[i + 1] = i + FullArgMin(Window(i))

(* C2 as amended: minimizers_seq_scalar(s,k,w)[i] is i + the leftmost      *)
(* argmin over the w k-mers of window i of the upper 16 bits of the k-mer  *)
(* hash (hash & 0xffff_0000), which is what minimizer() computes.          *)
C2_ArgMinOfUpperHalf ==
    (ScalarDone /\ mode = "fwd") =>
        /\ Len(scalar_out) = NumWindows
        /\ \A i \in 0 .. NumWindows - 1 :
               scalar_out[i + 1] = i + minimizer(Window(i), k)

(* A window in which the smallest upper half occurs at two k-mers whose    *)
(* hashes differ, the later one being the smaller hash.                    *)
C2_Witness ==
    /\ pc = "scalar" /\ mode = "fwd" /\ w >= 2
    /\ \E i \in 0 .. NumWindows - 1 :
           /\ minimizer(Window(i), k) < FullArgMin(Window(i))
           /\ scalar_out[i + 1] = i + minimizer(Window(i), k)

(* C3: with l = k+w-1, minimizers_seq_scalar and the linearised            *)
(* minimizers_seq_simd both yield max(0, |s| - l + 1) positions (8 * head  *)
(* length + tail length); a sequence shorter than l yields none.           *)
C3_OutputLength ==
    /\ (ScalarDone /\ mode = "fwd") => Len(scalar_out) = NumWindows
    /\ (pc \in {"simd", "collected"} /\ mode = "fwd") =>
           8 * Len(head) + Len(tail) = NumWindows
    /\ (pc = "collected" /\ mode = "fwd") =>
           /\ Len(simd_out) = NumWindows
           /\ (Len(seq) < WindowLen => simd_out = <<>> /\ scalar_out = <<>>)

C3_Witness ==
    /\ pc = "collected" /\ mode = "fwd"
    /\ Len(seq) >= WindowLen /\ w >= 2
    /\ Len(head) >= 1 /\ Len(tail) >= 2
    /\ Len(simd_out) = Len(seq) - WindowLen + 1

(* C4: every position emitted for the window starting at i lies in         *)
(* i .. i+w-1: forward and canonical, scalar, SIMD head lanes and tail.    *)
InWindow(p, i) == i <= p /\ p <= i + w - 1

C4_PositionInWindow ==
    /\ ScalarDone => \A i \in 1 .. Len(scalar_out) : InWindow(scalar_out[i], i - 1)
    /\ pc \in {"simd", "collected"} =>
           /\ \A t \in 1 .. Len(head) : \A j \in Lanes :
                  InWindow(head[t][j], (j - 1) * Len(head) + (t - 1))
           /\ \A i \in 1 .. Len(tail) :
                  InWindow(tail[i], 8 * Len(head) + (i - 1))

C4_Witness ==
    /\ pc = "simd" /\ mode = "rc" /\ w = 3
    /\ Len(head) >= 1 /\ Len(tail) >= 1
    /\ \E t \in 1 .. Len(head) : \E j \in 2 .. L :
           head[t][j] = (j - 1) * Len(head) + (t - 1) + w - 1
    /\ \E i \in 1 .. Len(tail) : tail[i] > 8 * Len(head) + (i - 1)

(* C5: for odd l = k+w-1 the canonical minimizer positions of s and of     *)
(* revcomp(s) mirror each other:                                           *)
(* p_fwd[i] + p_rev[|s|-l-i] = |s|-k for every window i.                   *)
C5_CanonicalSymmetry ==
    (pc \in {"revcomp", "simd", "collected"} /\ mode = "rc") =>
        /\ Len(rev_out) = Len(scalar_out)
        /\ \A i \in 0 .. NumWindows - 1 :
               scalar_out[i + 1] + rev_out[(Len(seq) - WindowLen - i) + 1]
                   = Len(seq) - k

(* A sequence with a canonical window and one that is not, in both of      *)
(* which the smallest hash occurs more than once.                          *)
TiedWindow(i) ==
    LET hs == hash_seq_scalar(TRUE, Window(i), k)
    IN  \E a, b \in 1 .. Len(hs) :
            /\ a # b /\ hs[a][1] = hs[b][1]
            /\ \A j \in 1 .. Len(hs) : hs[a][1] <= hs[j][1]

C5_Witness ==
    /\ pc = "revcomp" /\ mode = "rc" /\ w >= 2
    /\ \E i, j \in 0 .. NumWindows - 1 :
           /\ TiedWindow(i) /\ IsCanonical(Window(i))
           /\ TiedWindow(j) /\ ~IsCanonical(Window(j))
    /\ \A i \in 0 .. NumWindows - 1 :
           scalar_out[i + 1] + rev_out[(Len(seq) - WindowLen - i) + 1]
               = Len(seq) - k

(* C6: for odd k+w-1, collect(canonical_minimizers_seq_simd(s,k,w)) equals *)
(* canonical_minimizers_seq_scalar(s,k,w): lanes and tail pick the         *)
(* leftmost minimum of a canonical window and the rightmost otherwise.     *)
C6_CanonicalSimdEqualsScalar ==
    (pc = "collected" /\ mode = "rc") => simd_out = scalar_out

(* Some lane of the head holds a canonical window and some lane one that   *)
(* is not, each with its smallest hash occurring more than once.           *)
C6_Witness ==
    /\ pc = "collected" /\ mode = "rc" /\ w >= 2
    /\ Len(head) >= 1 /\ Len(tail) >= 1
    /\ \E i, j \in 0 .. 8 * Len(head) - 1 :
           /\ TiedWindow(i) /\ IsCanonical(Window(i))
           /\ TiedWindow(j) /\ ~IsCanonical(Window(j))
    /\ simd_out = scalar_out

---------------------------------------------------------------------------
(* Properties of the collectors.                                           *)

CollectDone == pc \in {"collected", "deduped"}

(* C7: for a head of N vectors and a tail of T scalars, collect returns    *)
(* 8*N + T elements; element j*N + t is lane j of the t-th vector, for     *)
(* every lane j and every t < N (so a partial final matrix contributes     *)
(* only its first N mod 8 columns), and element 8*N + i is the i-th        *)
(* element of the tail.                                                    *)
C7_CollectLayout ==
    CollectDone =>
        LET n == Len(head)
        IN  /\ Len(simd_out) = 8 * n + Len(tail)
            /\ \A j \in 0 .. L - 1 : \A t \in 0 .. n - 1 :
                   simd_out[j * n + t + 1] = head[t + 1][j + 1]
            /\ \A i \in 0 .. Len(tail) - 1 :
                   simd_out[8 * n + i + 1] = tail[i + 1]

(* collect has run on a head with a full block and a partial one, all      *)
(* values distinct, and a tail.                                            *)
C7_Witness ==
    /\ pc = "collected"
    /\ Len(head) > 8
    /\ Len(head) % 8 # 0
    /\ Len(tail) > 0
    /\ \A p \in 1 .. Len(simd_out) : simd_out[p] = <<0, p - 1>>

(* C8: collect_and_dedup::<false> returns collect's result without the     *)
(* elements equal to their immediate predecessor, whatever u32 values the  *)
(* head and the tail hold.                                                 *)
C8_DedupOfCollect ==
    (pc = "deduped" /\ ~SUPER) => out_vec = Dedup(simd_out)

(* The 1-based positions of s at which a run of equal values starts.       *)
RunStarts(s) == { p \in 1 .. Len(s) : p = 1 \/ s[p] # s[p - 1] }

(* C9: every element of the result of collect_and_dedup::<true> has, as    *)
(* its lower half, the lower half of an input value and, as its upper      *)
(* half, the index mod 2^16 in the linearised stream at which the run of   *)
(* that value starts.                                                      *)
C9_SuperPacksFirstIndex ==
    (pc = "deduped" /\ SUPER) =>
        \A n \in 1 .. Len(out_vec) :
            \E p \in RunStarts(simd_out) :
                out_vec[n] = <<(p - 1) % Half, simd_out[p][2]>>

---------------------------------------------------------------------------
(* Properties of dedup_vec.                                                *)

(* C10: dedup_vec leaves in v what Vec::dedup leaves; while it runs, the   *)
(* part of v not yet read is as it was given, and prev holds the given     *)
(* values at read_idx - 1 .. read_idx + 6 although the writes may have     *)
(* overwritten them in v.                                                  *)
C10_DedupVecIsDedup ==
    /\ pc = "done" => v = Dedup(input)
    /\ pc \in {"vector", "scalar"} =>
           /\ Len(v) = Len(input)
           /\ \A p \in read_idx + 1 .. Len(v) : v[p] = input[p]
    /\ pc = "vector" =>
           \A i \in Lanes : read_idx - 1 + i <= Len(input) =>
                                prev[i] = input[read_idx - 1 + i]

(* The vector loop has run and will run again, and the element that prev   *)
(* starts with has been overwritten in v.                                  *)
C10_Witness ==
    /\ pc = "vector"
    /\ read_idx > 1
    /\ read_idx + 2 * L - 1 <= Len(v)
    /\ v[read_idx] # input[read_idx]
    /\ Dedup(input) # input

---------------------------------------------------------------------------
(* Properties of the anti-lex hashes.                                      *)

(* The number whose base-4 digits are bs, first digit first.               *)
RECURSIVE Digits4(_, _)
Digits4(bs, i) == IF i = 0 THEN 0 ELSE 4 * Digits4(bs, i - 1) + bs[i]

(* The 2-bit concatenation of the last min(k, 16) bases of win, with the   *)
(* first of them inverted.                                                 *)
AntiLexValue(win) ==
    LET kk   == Len(win)
        m    == IF kk < 16 THEN kk ELSE 16
        last == [i \in 1 .. m |-> IF i = 1 THEN 3 - win[kk - m + 1]
                                  ELSE win[kk - m + i]]
        nhi  == IF m > 8 THEN m - 8 ELSE 0
    IN  <<Digits4(SubSeq(last, 1, nhi), nhi),
          Digits4(SubSeq(last, nhi + 1, m), m - nhi)>>

AntiLexDone == pc \in {"scalar", "simd", "collected"}

(* C11: anti_lex_seq_scalar(s, k) yields |s| - k + 1 hashes, none if       *)
(* |s| < k, and the i-th is anti_lex_kmer of the i-th k-mer, which is the  *)
(* 2-bit concatenation of its last min(k, 16) bases with the top base      *)
(* inverted.                                                               *)
C11_AntiLexRollingIdentity ==
    AntiLexDone =>
        /\ Len(scalar_out) = SaturatingSub(Len(seq) + 1, k)
        /\ \A i \in 1 .. Len(scalar_out) :
              /\ scalar_out[i] = anti_lex_kmer(Slice(seq, i - 1, k))
              /\ scalar_out[i] = AntiLexValue(Slice(seq, i - 1, k))

(* The scalar iterator has rolled over several k-mers longer than 16       *)
(* bases whose first base is outside the hash.                             *)
C11_Witness ==
    /\ pc = "scalar"
    /\ k > 16
    /\ Len(scalar_out) >= 3
    /\ \E i \in 1 .. Len(scalar_out) - 1 : scalar_out[i] # scalar_out[i + 1]

(* C12: with w = 1 the chunks of anti_lex_seq_simd do not overlap and      *)
(* collect of its head and tail is anti_lex_seq_scalar(s, k), element for  *)
(* element.                                                                *)
C12_AntiLexSimdEqualsScalar ==
    pc = "collected" =>
        /\ simd_out = scalar_out
        /\ L * Len(head) + Len(tail) = Len(scalar_out)

(* collect has run on a head of at least two vectors and a tail, and the   *)
(* hashes are not all equal.                                               *)
C12_Witness ==
    /\ pc = "collected"
    /\ Len(head) >= 2
    /\ Len(tail) >= 1
    /\ \E i \in 1 .. Len(simd_out) - 1 : simd_out[i] # simd_out[i + 1]

---------------------------------------------------------------------------
(* Properties of parameter validation.                                     *)

InvalidParams ==
    \/ k = 0
    \/ call.entry \in TakesW /\ w = 0
    \/ call.entry \in CanonicalEntryPoints /\ (k + w - 1) % 2 = 0

Called == pc = "called" /\ call # Unused

---------------------------------------------------------------------------
(* Properties of the calls of collect_and_dedup_into on one thread.        *)

(* The call in progress, had it run on a thread whose CACHE was never      *)
(* used, after the same number of vectors.                                 *)
FreshRun ==
    DedupLoop(SUPER, DedupInit(EmptyCache), SubSeq(head, 1, locals.i), 1, Len(head))

FreshCall == collect_and_dedup_into(SUPER, head, tail, call.out_vec, EmptyCache)

(* The output of a call is that of the call on a fresh thread.             *)
OutputAsFresh == pc = "returned" => out_vec = FreshCall.out_vec

(* C14 as stated: when a call starts its buffers are empty, and its output *)
(* is that of the call on a fresh thread.                                  *)
C14_ClearedAtStart ==
    /\ (pc = "head" /\ locals.i = 0) => \A j \in Lanes : Len(CACHE[j]) = 0
    /\ OutputAsFresh

(* C14 as amended: a call does not clear its buffers when it starts; it    *)
(* writes every lane from index 0 on and truncates it to the elements      *)
(* written once the head is consumed, so that the written part of every    *)
(* lane, the buffers left and the output are those of the call on a fresh  *)
(* thread.                                                                 *)
C14_OverwrittenAndTruncated ==
    /\ pc = "head" =>
          \A j \in Lanes :
              /\ locals.write_idx[j] = FreshRun.write_idx[j]
              /\ SubSeq(CACHE[j], 1, locals.write_idx[j])
                    = SubSeq(FreshRun.v[j], 1, FreshRun.write_idx[j])
    /\ pc = "returned" => CACHE = FreshCall.CACHE
    /\ OutputAsFresh

(* A later call has returned although it started on buffers that held      *)
(* elements left by an earlier call.                                       *)
C14_Witness ==
    /\ pc = "returned"
    /\ Len(head) = L
    /\ \E j \in Lanes : Len(call.CACHE[j]) > L /\ Len(CACHE[j]) < L
    /\ out_vec = FreshCall.out_vec
    /\ Len(out_vec) > Len(call.out_vec)

(* The lanes written so far by the call in progress are those of the call  *)
(* on a fresh thread.                                                      *)
LanesIntact ==
    \A j \in Lanes :
        SubSeq(CACHE[j], 1, locals.write_idx[j])
            = SubSeq(FreshRun.v[j], 1, FreshRun.write_idx[j])

(* C15: when the head iterator of a call in progress calls                 *)
(* collect_and_dedup_into, the two calls never both hold the mutable       *)
(* borrow of CACHE: the inner call panics at borrow_mut and the lanes      *)
(* written by the outer call are left as they were.                        *)
C15_ReentryRejected ==
    /\ holders <= 1
    /\ pc # "nested"
    /\ pc = "panicked" => (holders = 0 /\ LanesIntact)

C15_Witness ==
    /\ pc = "panicked"
    /\ locals.i >= L
    /\ \E j \in Lanes : locals.write_idx[j] > 1
    /\ holders = 0

(* C19: collect_and_dedup_into only appends to out_vec: what out_vec held  *)
(* before the call stays at the same indices, and what follows is the      *)
(* output of the call on an empty out_vec without its leading elements     *)
(* equal to the last element held before.                                  *)
C19_OnlyAppends ==
    /\ pc \in {"head", "panicked"} => out_vec = call.out_vec
    /\ pc = "returned" =>
          /\ Len(out_vec) >= Len(call.out_vec)
          /\ SubSeq(out_vec, 1, Len(call.out_vec)) = call.out_vec
          /\ SubSeq(out_vec, Len(call.out_vec) + 1, Len(out_vec))
                = StripLeading(call.out_vec,
                               collect_and_dedup(SUPER, head, tail, EmptyCache).out_vec)

C19_Witness ==
    /\ pc = "returned"
    /\ Len(call.out_vec) > 1
    /\ Len(head) >= L
    /\ Len(out_vec) > Len(call.out_vec)
    /\ Len(out_vec) < Len(call.out_vec)
          + Len(collect_and_dedup(SUPER, head, tail, EmptyCache).out_vec)

---------------------------------------------------------------------------
(* Properties of the shuffle table and of append_unique_vals.              *)

(* The indices 0 .. 7 whose bit is clear in m, in increasing order.        *)
ClearBits(m) ==
    LET clear(e) == Bit(m, e) = 0
    IN  SelectSeq(<<0, 1, 2, 3, 4, 5, 6, 7>>, clear)

RowMovesClearBitsToFront(row, m) ==
    SubSeq(row, 1, L - count_ones(m)) = ClearBits(m)

(* C16: the row of UNIQSHUF that an implementation looks up for the mask   *)
(* m of lanes equal to their predecessor starts with the indices whose bit *)
(* is clear in m, in increasing order, and row m of the AVX2 table and of  *)
(* the NEON table are the same in all 8 entries.                           *)
C16_ShuffleTable ==
    /\ "avx" \in app.done =>
          /\ app.avx.m = app.m
          /\ RowMovesClearBitsToFront(app.avx.key, app.m)
    /\ "neon" \in app.done =>
          /\ app.neon.m = app.m
          /\ RowMovesClearBitsToFront(app.neon.key, app.m)
    /\ app.done = {"avx", "neon"} => app.avx.key = app.neon.key

C16_Witness ==
    /\ pc = "done"
    /\ app.m = 165
    /\ app.avx.key = app.neon.key
    /\ SubSeq(app.avx.key, 1, 4) = <<1, 3, 4, 6>>

(* The predecessor of lane e of new, 1-based.                              *)
Predecessor(e) == IF e = 1 THEN app.old[L] ELSE app.new[e - 1]

(* The elements of vals whose lane of new differs from its predecessor.    *)
Appended ==
    LET differs(e) == app.new[e] # Predecessor(e)
        kept       == SelectSeq(<<1, 2, 3, 4, 5, 6, 7, 8>>, differs)
    IN  [p \in 1 .. Len(kept) |-> app.vals[kept[p]]]

AppendsUnique(r) ==
    /\ r.write_idx = app.write_idx + Len(Appended)
    /\ Len(Appended) = L - count_ones(r.m)
    /\ Len(r.v) = Len(app.v)
    /\ SubSeq(r.v, 1, r.write_idx) = SubSeq(app.v, 1, app.write_idx) \o Appended

(* C17: append_unique_vals writes from v[write_idx] on the elements        *)
(* vals[e], in increasing e, whose new[e] differs from its predecessor     *)
(* (old[7] for e = 0), and advances write_idx by their number, which is    *)
(* 8 - popcount of the mask; the AVX2 and the NEON implementation leave    *)
(* the same v[.. write_idx] and the same write_idx.                        *)
C17_AppendUniqueVals ==
    /\ "avx" \in app.done => AppendsUnique(app.avx)
    /\ "neon" \in app.done => AppendsUnique(app.neon)
    /\ app.done = {"avx", "neon"} =>
          /\ app.avx.write_idx = app.neon.write_idx
          /\ SubSeq(app.avx.v, 1, app.avx.write_idx)
                = SubSeq(app.neon.v, 1, app.neon.write_idx)

C17_Witness ==
    /\ pc = "done"
    /\ app.write_idx = 3
    /\ Len(Appended) = 5
    /\ app.new[1] = app.old[L]
    /\ \E e \in 3 .. L : app.new[e] # Predecessor(e) /\ app.new[e] = app.new[e - 2]
    /\ app.neon.write_idx = 8

---------------------------------------------------------------------------
(* Index safety of dedup_vec.                                              *)

(* Every index touched so far lies below v.len(), the length of v before   *)
(* the final resize.                                                       *)
AccessedInBounds == accessed <= Len(input)

(* C18: every index of v that dedup_vec reads or writes (the first load of *)
(* prev, the loads of nextprev and new, the stores at write_idx, the       *)
(* scalar loop) lies in [0, v.len()), for vectors of length 1 to 7 too.    *)
C18_AccessInBounds == pc # "start" => AccessedInBounds

(* From 8 elements on every index touched lies in the vector.              *)
InBoundsFromL == (pc # "start" /\ Len(input) >= L) => AccessedInBounds

---------------------------------------------------------------------------
(* Properties of the anchors.                                              *)

SampledInWindow == 0 <= anchor.sampled /\ anchor.sampled < anchor.w

AllZero == \A p \in 1 .. Len(anchor.lmer) : anchor.lmer[p] = 0

(* C20: for every w >= 1, k >= 1 and window of length l(), sample returns  *)
(* an index i with 0 <= i < w, for SusAnchor with and without modulo (the  *)
(* all-zero window included) and for BdAnchor with every r.                *)
C20_SampleInWindow == pc = "sampled" => SampledInWindow

(* The index lies in the window but for SusAnchor with modulo on the       *)
(* all-zero window with w = 1.                                             *)
SampleInWindowButZeroW1 ==
    pc = "sampled" =>
        \/ SampledInWindow
        \/ /\ anchor.scheme = "SusAnchor" /\ anchor.modulo
           /\ anchor.w = 1 /\ AllZero /\ anchor.sampled = 1

====
